---- MODULE Spec2Model ----
(***************************************************************************)
(* soundforge: the SoundSpec data model (schema.py), the parameter path    *)
(* resolver (paths.py), the synthesis engine (renderer.py), the WAV        *)
(* encoding (util_wav.py), the presets (presets.py) and the generation     *)
(* from a prompt with its fallback (llm.py).                               *)
(*                                                                         *)
(* Representation.                                                         *)
(*  - A Python value is a tagged record: None, F(n) a float of n           *)
(*    thousandths, I(n) an int, B(b) a bool, Str(s) / S(q) a str.          *)
(*  - A str is a sequence of symbols.  The punctuation ".", "[", "]", "-"  *)
(*    and the digits "0".."9" are symbols of their own; a keyword or an    *)
(*    identifier without punctuation ("layers", "amp", "main") is one      *)
(*    symbol that the regular expression class \w matches.                 *)
(*  - A pydantic model instance is a record of its fields.                 *)
(***************************************************************************)
EXTENDS Integers, Sequences, FiniteSets, TLC

VARIABLES spec, call, out, updates, renders

vars == <<spec, call, out, updates, renders>>

(***************************************************************************)
(* Python values and the builtin conversions float(), int(), bool()        *)
(***************************************************************************)
None == [t |-> "none"]

F(n) == [t |-> "float", v |-> n]

I(n) == [t |-> "int", v |-> n]

B(b) == [t |-> "bool", v |-> b]

S(q) == [t |-> "str", v |-> q]

Str(w) == S(<<w>>)

Digits == {"0", "1", "2", "3", "4", "5", "6", "7", "8", "9"}

DigitVal(c) ==
    CASE c = "0" -> 0 [] c = "1" -> 1 [] c = "2" -> 2 [] c = "3" -> 3
      [] c = "4" -> 4 [] c = "5" -> 5 [] c = "6" -> 6 [] c = "7" -> 7
      [] c = "8" -> 8 [] c = "9" -> 9

IsDigits(q) == Len(q) > 0 /\ \A i \in DOMAIN q : q[i] \in Digits

RECURSIVE DecimalValue(_)
DecimalValue(q) ==
    IF q = <<>> THEN 0
    ELSE 10 * DecimalValue(SubSeq(q, 1, Len(q) - 1)) + DigitVal(q[Len(q)])

\* position of the first "." in q, 0 when there is none
DotAt(q) ==
    IF \E i \in DOMAIN q : q[i] = "."
    THEN CHOOSE i \in DOMAIN q : q[i] = "." /\ \A j \in 1..(i - 1) : q[j] # "."
    ELSE 0

Unsigned(q) == IF q # <<>> /\ q[1] = "-" THEN Tail(q) ELSE q

\* the decimal literals float() accepts: [-]digits[.digits] | [-][digits].digits
IsFloatLiteral(q) ==
    LET u == Unsigned(q)
        d == DotAt(u)
        ip == IF d = 0 THEN u ELSE SubSeq(u, 1, d - 1)
        fp == IF d = 0 THEN <<>> ELSE SubSeq(u, d + 1, Len(u))
    IN  /\ ip = <<>> \/ IsDigits(ip)
        /\ fp = <<>> \/ IsDigits(fp)
        /\ ip # <<>> \/ fp # <<>>

\* the literals int() accepts: [-]digits
IsIntLiteral(q) == IsDigits(Unsigned(q))

\* the value of a float literal, in thousandths
MilliOfLiteral(q) ==
    LET u == Unsigned(q)
        d == DotAt(u)
        ip == IF d = 0 THEN u ELSE SubSeq(u, 1, d - 1)
        fp == IF d = 0 THEN <<>> ELSE SubSeq(u, d + 1, Len(u))
        f3 == SubSeq(fp \o <<"0", "0", "0">>, 1, 3)
        m == DecimalValue(ip) * 1000 + DecimalValue(f3)
    IN  IF q # <<>> /\ q[1] = "-" THEN 0 - m ELSE m

\* int() of a float truncates toward zero
TruncMilli(n) == IF n >= 0 THEN n \div 1000 ELSE 0 - ((0 - n) \div 1000)

\* float(x): ok = FALSE stands for the TypeError / ValueError it raises
PyFloat(x) ==
    CASE x.t = "float" -> [ok |-> TRUE, val |-> x]
      [] x.t = "int" -> [ok |-> TRUE, val |-> F(x.v * 1000)]
      [] x.t = "bool" -> [ok |-> TRUE, val |-> F(IF x.v THEN 1000 ELSE 0)]
      [] x.t = "str" ->
            IF IsFloatLiteral(x.v)
            THEN [ok |-> TRUE, val |-> F(MilliOfLiteral(x.v))]
            ELSE [ok |-> FALSE, val |-> None]
      [] OTHER -> [ok |-> FALSE, val |-> None]

\* int(x)
PyInt(x) ==
    CASE x.t = "float" -> [ok |-> TRUE, val |-> I(TruncMilli(x.v))]
      [] x.t = "int" -> [ok |-> TRUE, val |-> x]
      [] x.t = "bool" -> [ok |-> TRUE, val |-> I(IF x.v THEN 1 ELSE 0)]
      [] x.t = "str" ->
            IF IsIntLiteral(x.v)
            THEN [ok |-> TRUE, val |-> I(MilliOfLiteral(x.v) \div 1000)]
            ELSE [ok |-> FALSE, val |-> None]
      [] OTHER -> [ok |-> FALSE, val |-> None]

\* bool(x) never raises
PyBool(x) ==
    CASE x.t = "float" -> [ok |-> TRUE, val |-> B(x.v # 0)]
      [] x.t = "int" -> [ok |-> TRUE, val |-> B(x.v # 0)]
      [] x.t = "bool" -> [ok |-> TRUE, val |-> x]
      [] x.t = "str" -> [ok |-> TRUE, val |-> B(x.v # <<>>)]
      [] OTHER -> [ok |-> TRUE, val |-> B(FALSE)]

\* truth value of an Optional[model] attribute (a model instance is truthy)
Truthy(x) == x # None

(***************************************************************************)
(* str operations used by the path resolver                                *)
(***************************************************************************)
\* the regular expression class \w: letters, digits, underscore
IsWord(c) == c \notin {".", "[", "]", "-"}

\* x in q  (for a one-character x)
Contains(q, c) == \E i \in DOMAIN q : q[i] = c

\* length of the longest prefix of q made of \w symbols
RECURSIVE WordRun(_)
WordRun(q) == IF q = <<>> \/ ~IsWord(q[1]) THEN 0 ELSE 1 + WordRun(Tail(q))

\* length of the longest prefix of q made of \d symbols
RECURSIVE DigitRun(_)
DigitRun(q) == IF q = <<>> \/ q[1] \notin Digits THEN 0 ELSE 1 + DigitRun(Tail(q))

\* q.split('.')
RECURSIVE split(_)
split(q) ==
    LET d == DotAt(q)
    IN  IF d = 0 THEN <<q>>
        ELSE <<SubSeq(q, 1, d - 1)>> \o split(SubSeq(q, d + 1, Len(q)))

NoMatch == [matched |-> FALSE, prefix |-> <<>>, index |-> <<>>, remainder |-> <<>>]

\* re.match(r'(\w+)\[(\d+)\]\.?(.*)', path): anchored at the start only; each
\* greedy run must end exactly at the literal that follows it
re_match(path) ==
    LET n == WordRun(path)
        r1 == SubSeq(path, n + 1, Len(path))
    IN  IF n = 0 \/ r1 = <<>> \/ r1[1] # "[" THEN NoMatch
        ELSE LET r2 == Tail(r1)
                 m == DigitRun(r2)
             IN  IF m = 0 \/ Len(r2) = m \/ r2[m + 1] # "]" THEN NoMatch
                 ELSE LET r3 == SubSeq(r2, m + 2, Len(r2))
                      IN  [matched |-> TRUE,
                           prefix |-> SubSeq(path, 1, n),
                           index |-> SubSeq(r2, 1, m),
                           remainder |-> IF r3 # <<>> /\ r3[1] = "." THEN Tail(r3) ELSE r3]

(***************************************************************************)
(* paths.py.  A setter works in place; here it returns the outcome of the  *)
(* call: exc (an exception is propagating), ret (the value returned) and   *)
(* obj (the object as the call leaves it).                                 *)
(***************************************************************************)
Ok(o) == [exc |-> FALSE, ret |-> TRUE, obj |-> o]

Fail(o) == [exc |-> FALSE, ret |-> FALSE, obj |-> o]

Raise(o) == [exc |-> TRUE, ret |-> FALSE, obj |-> o]

\* the store of a converted value c, or the exception the conversion raised
Stored(o, f, c) == IF c.ok THEN Ok([o EXCEPT ![f] = c.val]) ELSE Raise(o)

\* o.f = float(value); return True     (the conversion runs before the store)
SetFloat(o, f, value) == Stored(o, f, PyFloat(value))

\* o.f = int(value); return True
SetInt(o, f, value) == Stored(o, f, PyInt(value))

\* o.f = bool(value); return True
SetBool(o, f, value) == Stored(o, f, PyBool(value))

\* o.f = value; return True
SetRaw(o, f, value) == Ok([o EXCEPT ![f] = value])

\* the outcome r of a call on the object held in o.f, seen from o
Within(o, f, r) == [exc |-> r.exc, ret |-> r.ret, obj |-> [o EXCEPT ![f] = r.obj]]

\* _update_global refusing an amp outside the bounds of the schema
_update_global_checked(s, parts, value) ==
    IF parts = <<>> THEN Fail(s)
    ELSE LET field == parts[1]
         IN  CASE field = <<"amp">> ->
                    IF PyFloat(value).ok /\ PyFloat(value).val.v \in 0..1000
                    THEN Within(s, "global_", SetFloat(s.global_, "amp", value))
                    ELSE Fail(s)
               [] field = <<"normalize">> ->
                    Within(s, "global_", SetBool(s.global_, "normalize", value))
               [] OTHER -> Fail(s)

_update_global(s, parts, value) ==
    IF parts = <<>> THEN Fail(s)
    ELSE LET field == parts[1]
         IN  CASE field = <<"amp">> ->
                    Within(s, "global_", SetFloat(s.global_, "amp", value))
               [] field = <<"normalize">> ->
                    Within(s, "global_", SetBool(s.global_, "normalize", value))
               [] OTHER -> Fail(s)

\* _update_osc_field assigning the value to the payload, not to its waveform
_update_osc_field_replacing(osc, field, value) ==
    CASE field = <<"freq">> -> SetFloat(osc, "freq", value)
      [] field = <<"detune">> -> SetFloat(osc, "detune", value)
      [] field = <<"waveform">> -> Ok(value)
      [] OTHER -> Fail(osc)

_update_osc_field(osc, field, value) ==
    CASE field = <<"freq">> -> SetFloat(osc, "freq", value)
      [] field = <<"detune">> -> SetFloat(osc, "detune", value)
      [] field = <<"waveform">> -> SetRaw(osc, "waveform", value)
      [] OTHER -> Fail(osc)

\* the outcome r of a store, followed by the same store into field f
AndThen(r, f, value) == IF r.ret THEN SetFloat(r.obj, f, value) ELSE r

\* _update_chirp_field storing f_start into f_end as well
_update_chirp_field_both(chirp, field, value) ==
    CASE field = <<"f_start">> -> AndThen(SetFloat(chirp, "f_start", value), "f_end", value)
      [] field = <<"f_end">> -> SetFloat(chirp, "f_end", value)
      [] field = <<"vibrato_hz">> -> SetFloat(chirp, "vibrato_hz", value)
      [] field = <<"vibrato_depth">> -> SetFloat(chirp, "vibrato_depth", value)
      [] field = <<"waveform">> -> SetRaw(chirp, "waveform", value)
      [] OTHER -> Fail(chirp)

_update_chirp_field(chirp, field, value) ==
    CASE field = <<"f_start">> -> SetFloat(chirp, "f_start", value)
      [] field = <<"f_end">> -> SetFloat(chirp, "f_end", value)
      [] field = <<"vibrato_hz">> -> SetFloat(chirp, "vibrato_hz", value)
      [] field = <<"vibrato_depth">> -> SetFloat(chirp, "vibrato_depth", value)
      [] field = <<"waveform">> -> SetRaw(chirp, "waveform", value)
      [] OTHER -> Fail(chirp)

_update_fm_field(fm, field, value) ==
    CASE field = <<"carrier_freq">> -> SetFloat(fm, "carrier_freq", value)
      [] field = <<"mod_freq">> -> SetFloat(fm, "mod_freq", value)
      [] field = <<"index">> -> SetFloat(fm, "index", value)
      [] field = <<"brightness">> -> SetFloat(fm, "brightness", value)
      [] OTHER -> Fail(fm)

_update_noise_field(noise, field, value) ==
    CASE field = <<"cutoff_start">> -> SetFloat(noise, "cutoff_start", value)
      [] field = <<"cutoff_end">> -> SetFloat(noise, "cutoff_end", value)
      [] OTHER -> Fail(noise)

\* _update_impulse_field setting tone_freq whatever it holds
_update_impulse_field_any(impulse, field, value) ==
    CASE field = <<"width">> -> SetFloat(impulse, "width", value)
      [] field = <<"tone_freq">> -> SetFloat(impulse, "tone_freq", value)
      [] OTHER -> Fail(impulse)

_update_impulse_field(impulse, field, value) ==
    CASE field = <<"width">> -> SetFloat(impulse, "width", value)
      [] field = <<"tone_freq">> /\ impulse.tone_freq # None ->
            SetFloat(impulse, "tone_freq", value)
      [] OTHER -> Fail(impulse)

_update_env_field(env, field, value) ==
    CASE field = <<"attack">> -> SetFloat(env, "attack", value)
      [] field = <<"decay">> -> SetFloat(env, "decay", value)
      [] field = <<"sustain">> -> SetFloat(env, "sustain", value)
      [] field = <<"release">> -> SetFloat(env, "release", value)
      [] OTHER -> Fail(env)

_update_mod_field(mod, field, value) ==
    CASE field = <<"tremolo_hz">> -> SetFloat(mod, "tremolo_hz", value)
      [] field = <<"tremolo_depth">> -> SetFloat(mod, "tremolo_depth", value)
      [] field = <<"pitch_lfo_hz">> -> SetFloat(mod, "pitch_lfo_hz", value)
      [] field = <<"pitch_lfo_depth">> -> SetFloat(mod, "pitch_lfo_depth", value)
      [] OTHER -> Fail(mod)

_update_layer_field(layer, parts, value) ==
    IF parts = <<>> THEN Fail(layer)
    ELSE LET field == parts[1]
         IN  CASE field = <<"amp">> -> SetFloat(layer, "amp", value)
               [] field = <<"pan">> -> SetFloat(layer, "pan", value)
               [] field = <<"phase">> -> SetFloat(layer, "phase", value)
               [] OTHER ->
                    IF Len(parts) < 2 THEN Fail(layer)
                    ELSE LET subfield == parts[2]
                         IN  CASE field = <<"osc">> /\ Truthy(layer.osc) ->
                                    Within(layer, "osc", _update_osc_field(layer.osc, subfield, value))
                               [] field = <<"chirp">> /\ Truthy(layer.chirp) ->
                                    Within(layer, "chirp", _update_chirp_field(layer.chirp, subfield, value))
                               [] field = <<"fm">> /\ Truthy(layer.fm) ->
                                    Within(layer, "fm", _update_fm_field(layer.fm, subfield, value))
                               [] field = <<"noise">> /\ Truthy(layer.noise) ->
                                    Within(layer, "noise", _update_noise_field(layer.noise, subfield, value))
                               [] field = <<"impulse">> /\ Truthy(layer.impulse) ->
                                    Within(layer, "impulse", _update_impulse_field(layer.impulse, subfield, value))
                               [] field = <<"env">> ->
                                    Within(layer, "env", _update_env_field(layer.env, subfield, value))
                               [] field = <<"mod">> /\ Truthy(layer.mod) ->
                                    Within(layer, "mod", _update_mod_field(layer.mod, subfield, value))
                               [] OTHER -> Fail(layer)

_update_fx_field(fx, parts, value) ==
    IF parts = <<>> THEN Fail(fx)
    ELSE IF parts[1] = <<"enabled">> THEN SetBool(fx, "enabled", value)
    ELSE IF parts[1] = <<"params">> /\ Len(parts) > 1
    THEN LET field == parts[2]
         IN  CASE field = <<"drive">> -> Within(fx, "params", SetFloat(fx.params, "drive", value))
               [] field = <<"steps">> -> Within(fx, "params", SetInt(fx.params, "steps", value))
               [] field = <<"hold_samples">> ->
                    Within(fx, "params", SetInt(fx.params, "hold_samples", value))
               [] field = <<"time_ms">> -> Within(fx, "params", SetFloat(fx.params, "time_ms", value))
               [] field = <<"feedback">> -> Within(fx, "params", SetFloat(fx.params, "feedback", value))
               [] field = <<"mix">> -> Within(fx, "params", SetFloat(fx.params, "mix", value))
               [] field = <<"target_peak">> ->
                    Within(fx, "params", SetFloat(fx.params, "target_peak", value))
               [] OTHER -> Fail(fx)
    ELSE Fail(fx)

\* the outcome r of a call on element k (1-based) of the list s.f, seen from s
WithinAt(s, f, k, r) ==
    [exc |-> r.exc, ret |-> r.ret, obj |-> [s EXCEPT ![f] = [@ EXCEPT ![k] = r.obj]]]

\* next((i for i in range(len(q)) if P(q[i])), None), 1-based, 0 for None
FirstIndex(q, P(_)) ==
    IF \E i \in DOMAIN q : P(q[i])
    THEN CHOOSE i \in DOMAIN q : P(q[i]) /\ \A j \in 1..(i - 1) : ~P(q[j])
    ELSE 0

\* the layer at position k (0 for None) takes the rest of the path
LayerFound(s, k, parts, value) ==
    IF k = 0 THEN Fail(s)
    ELSE WithinAt(s, "layers", k, _update_layer_field(s.layers[k], parts, value))

_update_layers_by_id(s, parts, value) ==
    IF parts = <<>> THEN Fail(s)
    ELSE LET HasId(l) == l.id = S(parts[1])
         IN  LayerFound(s, FirstIndex(s.layers, HasId), Tail(parts), value)

\* the effect at position k (0 for None) takes the rest of the path
FxFound(s, k, parts, value) ==
    IF k = 0 THEN Fail(s)
    ELSE WithinAt(s, "fx_chain", k, _update_fx_field(s.fx_chain[k], parts, value))

\* _update_fx_by_type on the last effect of the type
_update_fx_by_type_last(s, parts, value) ==
    IF parts = <<>> THEN Fail(s)
    ELSE LET HasType(f) == f.type.v = parts[1]
             Last == IF \E i \in DOMAIN s.fx_chain : HasType(s.fx_chain[i])
                     THEN CHOOSE i \in DOMAIN s.fx_chain :
                              HasType(s.fx_chain[i])
                                /\ \A j \in (i + 1)..Len(s.fx_chain) : ~HasType(s.fx_chain[j])
                     ELSE 0
         IN  FxFound(s, Last, Tail(parts), value)

_update_fx_by_type(s, parts, value) ==
    IF parts = <<>> THEN Fail(s)
    ELSE LET HasType(f) == f.type.v = parts[1]
         IN  FxFound(s, FirstIndex(s.fx_chain, HasType), Tail(parts), value)

\* the dispatch on parts[0] after the indexed branch fell through
Dotted(s, parts, value) ==
    CASE parts[1] = <<"global">> -> _update_global(s, Tail(parts), value)
      [] parts[1] = <<"duration">> -> SetFloat(s, "duration", value)
      [] parts[1] = <<"layers_by_id">> -> _update_layers_by_id(s, Tail(parts), value)
      [] parts[1] = <<"fx_by_type">> -> _update_fx_by_type(s, Tail(parts), value)
      [] OTHER -> Fail(s)

\* the part of update_spec_from_param after the indexed branch fell through
update_dotted(s, path, value) == Dotted(s, split(path), value)

\* the branch taken for layers[idx].rem
IndexedLayer(s, idx, rem, value) ==
    IF idx >= Len(s.layers) THEN Fail(s)
    ELSE IF rem = <<>> THEN Fail(s)
    ELSE WithinAt(s, "layers", idx + 1,
                  _update_layer_field(s.layers[idx + 1], split(rem), value))

\* the branch taken for fx[idx].rem
IndexedFx(s, idx, rem, value) ==
    IF idx >= Len(s.fx_chain) THEN Fail(s)
    ELSE IF rem = <<>> THEN Fail(s)
    ELSE WithinAt(s, "fx_chain", idx + 1,
                  _update_fx_field(s.fx_chain[idx + 1], split(rem), value))

\* the branches of the try block, match being the outcome of re.match
Indexed(s, path, value, match) ==
    IF match.matched /\ match.prefix = <<"layers">>
    THEN IndexedLayer(s, DecimalValue(match.index), match.remainder, value)
    ELSE IF match.matched /\ match.prefix = <<"fx">>
    THEN IndexedFx(s, DecimalValue(match.index), match.remainder, value)
    ELSE update_dotted(s, path, value)

\* the body of the try block of update_spec_from_param
update_try(s, path, value) ==
    Indexed(s, path, value, IF Contains(path, "[") THEN re_match(path) ELSE NoMatch)

\* except Exception: return False
Caught(r) == IF r.exc THEN [exc |-> FALSE, ret |-> FALSE, obj |-> r.obj] ELSE r

\* update_spec_from_param without its except clause
update_spec_from_param_unguarded(s, path, value) == update_try(s, path, value)

update_spec_from_param(s, path, value) == Caught(update_try(s, path, value))

(***************************************************************************)
(* schema.py.  A pydantic model class is the sequence of its scalar field  *)
(* declarations; nested models and lists are validated by the operators of *)
(* the class that holds them.  A document is a record with one key per     *)
(* field, None standing for an absent key.  Errors are field paths.        *)
(***************************************************************************)
\* name: float = Field(ge=lo, le=hi)          (bounds in thousandths)
Req(name, lo, hi) == [name |-> name, kind |-> "float", lo |-> lo, hi |-> hi,
                      required |-> TRUE, default |-> None]

\* name: float = Field(default=d, ge=lo, le=hi)  /  Optional[float] (d = None)
Opt(name, lo, hi, d) == [name |-> name, kind |-> "float", lo |-> lo, hi |-> hi,
                         required |-> FALSE, default |-> d]

\* name: int = Field(ge=lo, le=hi)
ReqInt(name, lo, hi) == [name |-> name, kind |-> "int", lo |-> lo, hi |-> hi,
                         required |-> TRUE, default |-> None]

\* name: Optional[int] = Field(default=None, ge=lo, le=hi)
OptInt(name, lo, hi) == [name |-> name, kind |-> "int", lo |-> lo, hi |-> hi,
                         required |-> FALSE, default |-> None]

\* name: <Enum>  /  Literal[...] of strings
ReqEnum(name, values) == [name |-> name, kind |-> "enum", values |-> values,
                          required |-> TRUE, default |-> None]

\* name: <Enum> = d
OptEnum(name, values, d) == [name |-> name, kind |-> "enum", values |-> values,
                             required |-> FALSE, default |-> Str(d)]

\* name: Literal[...] of ints
ReqIntLiteral(name, values) == [name |-> name, kind |-> "intliteral", values |-> values,
                                required |-> TRUE, default |-> None]

\* name: bool = d
OptBool(name, d) == [name |-> name, kind |-> "bool", required |-> FALSE, default |-> B(d)]

\* name: Optional[float] = None
OptNumber(name) == [name |-> name, kind |-> "number", required |-> FALSE, default |-> None]

\* name: Optional[Union[float, bool, str]] = None
OptUnion(name) == [name |-> name, kind |-> "union", required |-> FALSE, default |-> None]

\* name: Optional[List[str]] = None
OptStrings(name) == [name |-> name, kind |-> "strings", required |-> FALSE, default |-> None]

\* name: str
ReqStr(name) == [name |-> name, kind |-> "str", required |-> TRUE, default |-> None]

Waveform == {"sine", "triangle", "square", "saw"}

Curve == {"linear", "exponential"}

NoiseColor == {"white", "pink"}

ImpulseKind == {"click", "tap", "metal_ping"}

EnvelopeShape == {"exp", "lin", "adsr"}

FilterType == {"lp1", "hp1", "biquad_lp", "biquad_hp", "biquad_bp", "notch"}

FXType == {"softclip", "bitcrush", "delay", "normalize"}

LayerType == {"osc", "chirp", "fm", "noise", "impulse"}

ParamKind == {"slider", "select", "checkbox"}

Harmonic == <<Req("mul", 1000, 10000), Req("amp", 0, 1000)>>

Envelope == <<Req("attack", 0, 200), Req("decay", 1, 2000),
              Opt("sustain", 0, 1000, None), Opt("release", 0, 2000, None),
              OptEnum("shape", EnvelopeShape, "exp")>>

Modulation == <<Opt("tremolo_hz", 0, 30000, F(0)), Opt("tremolo_depth", 0, 800, F(0)),
                Opt("pitch_lfo_hz", 0, 30000, F(0)), Opt("pitch_lfo_depth", 0, 100, F(0))>>

Filter == <<ReqEnum("type", FilterType), Req("cutoff", 20000, 20000000),
            Opt("q", 100, 10000, F(707)), Opt("cutoff_end", 20000, 20000000, None),
            OptEnum("curve", Curve, "linear")>>

OscParams == <<ReqEnum("waveform", Waveform), Req("freq", 20000, 20000000),
               Opt("detune", -50000, 50000, F(0))>>

ChirpParams == <<ReqEnum("waveform", Waveform), Req("f_start", 20000, 20000000),
                 Req("f_end", 20000, 20000000), OptEnum("curve", Curve, "exponential"),
                 Opt("vibrato_hz", 0, 40000, F(0)), Opt("vibrato_depth", 0, 100, F(0))>>

FMParams == <<Req("carrier_freq", 20000, 20000000), Req("mod_freq", 1000, 20000000),
              Req("index", 0, 20000), OptEnum("waveform", {"sine"}, "sine"),
              Opt("brightness", 0, 1000, F(500))>>

NoiseParams == <<ReqEnum("color", NoiseColor), Opt("cutoff_start", 50000, 20000000, None),
                 Opt("cutoff_end", 50000, 20000000, None),
                 OptEnum("cutoff_curve", Curve, "linear")>>

ImpulseParams == <<ReqEnum("kind", ImpulseKind), Req("width", 1, 20),
                   Opt("tone_freq", 20000, 20000000, None)>>

\* Layer with a default pan that its own bounds exclude
LayerFields_leftpan == <<ReqStr("id"), ReqEnum("type", LayerType), Req("amp", 0, 1000),
                         Opt("pan", -1000, 1000, F(-2000)), Opt("phase", 0, 6283, F(0))>>

LayerFields == <<ReqStr("id"), ReqEnum("type", LayerType), Req("amp", 0, 1000),
                 Opt("pan", -1000, 1000, F(0)), Opt("phase", 0, 6283, F(0))>>

FXParams == <<Opt("drive", 0, 4000, None), OptInt("steps", 0, 1024),
              OptInt("hold_samples", 1, 64), Opt("time_ms", 5000, 200000, None),
              Opt("feedback", 0, 850, None), Opt("mix", 0, 700, None),
              Opt("target_peak", 100, 990, None)>>

FXFields == <<ReqEnum("type", FXType), OptBool("enabled", TRUE)>>

ParamFields == <<ReqStr("id"), ReqStr("label"), ReqEnum("kind", ParamKind), ReqStr("path"),
                 OptNumber("min"), OptNumber("max"), OptNumber("step"), OptUnion("default"),
                 OptStrings("options")>>

GlobalSettings == <<Req("amp", 0, 1000), OptBool("normalize", FALSE)>>

SoundSpecFields == <<OptEnum("version", {"soundspec-1"}, "soundspec-1"), ReqStr("name"),
                     ReqStr("description"), ReqIntLiteral("sample_rate", {22050, 44100, 48000}),
                     Req("duration", 30, 3000), ReqInt("seed", 0, 2147483647)>>

\* whether x satisfies the declaration fd
FieldOk(x, fd) ==
    IF x = None THEN ~fd.required
    ELSE CASE fd.kind = "float" ->
                /\ x.t \in {"float", "int"}
                /\ LET m == IF x.t = "int" THEN x.v * 1000 ELSE x.v
                   IN  fd.lo <= m /\ m <= fd.hi
           [] fd.kind = "int" -> x.t = "int" /\ fd.lo <= x.v /\ x.v <= fd.hi
           [] fd.kind = "enum" -> x.t = "str" /\ Len(x.v) = 1 /\ x.v[1] \in fd.values
           [] fd.kind = "intliteral" -> x.t = "int" /\ x.v \in fd.values
           [] fd.kind = "bool" -> x.t = "bool"
           [] fd.kind = "str" -> x.t = "str"
           [] fd.kind = "number" -> x.t \in {"float", "int"}
           [] fd.kind = "union" -> x.t \in {"float", "int", "bool", "str"}
           [] fd.kind = "strings" -> x.t = "list" /\ \A i \in DOMAIN x.v : x.v[i].t = "str"

\* the value the validated instance holds: the default for an absent key,
\* an int widened to float for a float field
FieldVal(x, fd) ==
    IF x = None THEN fd.default
    ELSE IF fd.kind \in {"float", "number", "union"} /\ x.t = "int" THEN F(x.v * 1000)
    ELSE x

Decl(cls, name) == cls[CHOOSE i \in DOMAIN cls : cls[i].name = name]

Names(cls) == {cls[i].name : i \in DOMAIN cls}

\* errors of the scalar fields of document d against class cls
ScalarErrors(d, cls) == {<<n>> : n \in {m \in Names(cls) : ~FieldOk(d[m], Decl(cls, m))}}

\* d with its scalar fields validated (other keys are left to the caller)
ScalarBuild(d, cls) ==
    [n \in DOMAIN d |-> IF n \in Names(cls) THEN FieldVal(d[n], Decl(cls, n)) ELSE d[n]]

Under(name, errs) == {<<name>> \o e : e \in errs}

\* a nested model of class cls under key name
NestedErrors(d, name, cls, required) ==
    IF d[name] = None THEN (IF required THEN {<<name>>} ELSE {})
    ELSE Under(name, ScalarErrors(d[name], cls))

NestedBuild(x, cls) == IF x = None THEN None ELSE ScalarBuild(x, cls)

\* Optional[List[cls]] = Field(default=None, max_length=max).  An absent list
\* is the empty sequence: the engine only tests these lists for truth, and
\* None and [] are both false
ListErrors(d, name, cls, max) ==
    (IF Len(d[name]) > max THEN {<<name>>} ELSE {})
      \cup Under(name, UNION {ScalarErrors(d[name][i], cls) : i \in DOMAIN d[name]})

ListBuild(x, cls) == [i \in DOMAIN x |-> ScalarBuild(x[i], cls)]

WithHarmonics(d, cls) ==
    IF d = None THEN None
    ELSE [ScalarBuild(d, cls) EXCEPT !.harmonics = ListBuild(d.harmonics, Harmonic)]

\* the payload field a layer type requires (type_map of check_type_params)
type_map(type) == type

PayloadOf(layer, key) ==
    CASE key = "osc" -> layer.osc [] key = "chirp" -> layer.chirp [] key = "fm" -> layer.fm
      [] key = "noise" -> layer.noise [] key = "impulse" -> layer.impulse

\* check_type_params accepting every layer
check_type_params_off(layer) == {}

\* Layer.check_type_params (mode='after': runs once the fields validated)
check_type_params(layer) ==
    IF PayloadOf(layer, type_map(layer.type.v[1])) = None THEN {<<"type_params">>} ELSE {}

Layer_field_errors(d) ==
    ScalarErrors(d, LayerFields)
      \cup NestedErrors(d, "env", Envelope, TRUE)
      \cup NestedErrors(d, "mod", Modulation, FALSE)
      \cup ListErrors(d, "filter", Filter, 4)
      \cup NestedErrors(d, "osc", OscParams, FALSE)
      \cup (IF d.osc = None THEN {} ELSE Under("osc", ListErrors(d.osc, "harmonics", Harmonic, 8)))
      \cup NestedErrors(d, "chirp", ChirpParams, FALSE)
      \cup (IF d.chirp = None THEN {}
            ELSE Under("chirp", ListErrors(d.chirp, "harmonics", Harmonic, 8)))
      \cup NestedErrors(d, "fm", FMParams, FALSE)
      \cup NestedErrors(d, "noise", NoiseParams, FALSE)
      \cup NestedErrors(d, "impulse", ImpulseParams, FALSE)

Layer_errors(d) ==
    LET fe == Layer_field_errors(d)
    IN  IF fe # {} THEN fe ELSE check_type_params(d)

Layer(d) ==
    [ScalarBuild(d, LayerFields) EXCEPT
        !.env = NestedBuild(d.env, Envelope),
        !.mod = NestedBuild(d.mod, Modulation),
        !.filter = ListBuild(d.filter, Filter),
        !.osc = WithHarmonics(d.osc, OscParams),
        !.chirp = WithHarmonics(d.chirp, ChirpParams),
        !.fm = NestedBuild(d.fm, FMParams),
        !.noise = NestedBuild(d.noise, NoiseParams),
        !.impulse = NestedBuild(d.impulse, ImpulseParams)]

FX_errors(d) == ScalarErrors(d, FXFields) \cup NestedErrors(d, "params", FXParams, TRUE)

FX(d) == [ScalarBuild(d, FXFields) EXCEPT !.params = NestedBuild(d.params, FXParams)]

\* len(ids) != len(set(ids))
HasDuplicates(ids) == Len(ids) # Cardinality({ids[i] : i \in DOMAIN ids})

\* SoundSpec.check_unique_layer_ids (runs once every layer validated)
check_unique_layer_ids(layers) ==
    IF HasDuplicates([i \in DOMAIN layers |-> layers[i].id]) THEN {<<"layers">>} ELSE {}

\* SoundSpec.check_unique_param_ids
check_unique_param_ids(params) ==
    IF HasDuplicates([i \in DOMAIN params |-> params[i].id]) THEN {<<"params">>} ELSE {}

\* layers: List[Layer] = Field(min_length=1, max_length=16)
Layers_errors(layers) ==
    LET le == (IF Len(layers) < 1 \/ Len(layers) > 16 THEN {<<"layers">>} ELSE {})
              \cup Under("layers", UNION {Layer_errors(layers[i]) : i \in DOMAIN layers})
    IN  IF le # {} THEN le ELSE check_unique_layer_ids(layers)

\* fx_chain: List[FX] = Field(default_factory=list, max_length=8)
FxChain_errors(fx) ==
    (IF Len(fx) > 8 THEN {<<"fx_chain">>} ELSE {})
      \cup Under("fx_chain", UNION {FX_errors(fx[i]) : i \in DOMAIN fx})

\* params: List[Param] = Field(default_factory=list, max_length=24)
Params_errors(params) ==
    LET pe == (IF Len(params) > 24 THEN {<<"params">>} ELSE {})
              \cup Under("params",
                         UNION {ScalarErrors(params[i], ParamFields) : i \in DOMAIN params})
    IN  IF pe # {} THEN pe ELSE check_unique_param_ids(params)

\* global_: GlobalSettings = Field(alias="global"), populate_by_name=True: the
\* settings are read under the alias, or else under the name of the field
GlobalOf(d) ==
    IF "global" \in DOMAIN d THEN d.global
    ELSE IF "global_" \in DOMAIN d THEN d.global_
    ELSE None

\* every violation pydantic reports for document d
SoundSpec_errors(d) ==
    ScalarErrors(d, SoundSpecFields)
      \cup NestedErrors([global |-> GlobalOf(d)], "global", GlobalSettings, TRUE)
      \cup Layers_errors(d.layers)
      \cup FxChain_errors(d.fx_chain)
      \cup Params_errors(d.params)

\* the instance built from a valid document; the key "global" fills global_
SoundSpec(d) ==
    LET b == ScalarBuild(d, SoundSpecFields)
    IN  [version |-> b.version, name |-> b.name, description |-> b.description,
         sample_rate |-> b.sample_rate, duration |-> b.duration, seed |-> b.seed,
         global_ |-> ScalarBuild(GlobalOf(d), GlobalSettings),
         layers |-> [i \in DOMAIN d.layers |-> Layer(d.layers[i])],
         fx_chain |-> [i \in DOMAIN d.fx_chain |-> FX(d.fx_chain[i])],
         params |-> [i \in DOMAIN d.params |-> ScalarBuild(d.params[i], ParamFields)]]

NoSpec == [t |-> "nospec"]

\* SoundSpec.model_validate(d): the instance, or ValidationError and no instance
model_validate(d) ==
    LET e == SoundSpec_errors(d)
    IN  IF e = {} THEN [ok |-> TRUE, spec |-> SoundSpec(d), errors |-> {}]
        ELSE [ok |-> FALSE, spec |-> NoSpec, errors |-> e]

\* spec.model_dump(by_alias=...): the document of the instance, one key per
\* field, the global settings under their alias or under the field's name
model_dump(s, by_alias) ==
    [k \in (DOMAIN s \ {"global_"}) \cup {IF by_alias THEN "global" ELSE "global_"} |->
        IF k \in {"global", "global_"} THEN s.global_ ELSE s[k]]

(***************************************************************************)
(* Documents: the specs of the test suite and their variations             *)
(***************************************************************************)
EnvDoc(attack, decay, shape) ==
    [attack |-> F(attack), decay |-> F(decay), sustain |-> None, release |-> None,
     shape |-> Str(shape)]

OscDoc(waveform, freq) ==
    [waveform |-> Str(waveform), freq |-> freq, detune |-> F(0), harmonics |-> <<>>]

ChirpDoc ==
    [waveform |-> Str("saw"), f_start |-> F(1000000), f_end |-> F(200000),
     curve |-> Str("exponential"), vibrato_hz |-> F(0), vibrato_depth |-> F(0),
     harmonics |-> <<>>]

FMDoc ==
    [carrier_freq |-> F(520000), mod_freq |-> F(260000), index |-> F(4000),
     waveform |-> None, brightness |-> F(600)]

NoiseDoc == [color |-> Str("white"), cutoff_start |-> None, cutoff_end |-> None,
             cutoff_curve |-> None]

ImpulseDoc(tone) == [kind |-> Str("click"), width |-> F(5), tone_freq |-> tone]

ModDoc == [tremolo_hz |-> F(5000), tremolo_depth |-> F(300), pitch_lfo_hz |-> F(0),
           pitch_lfo_depth |-> F(0)]

\* a layer document without payload
LayerDoc(id, type, amp) ==
    [id |-> S(id), type |-> Str(type), amp |-> amp, pan |-> None, phase |-> F(0),
     env |-> EnvDoc(10, 300, "exp"), mod |-> None, filter |-> <<>>,
     osc |-> None, chirp |-> None, fm |-> None, noise |-> None, impulse |-> None]

OscLayer(id, freq) ==
    [LayerDoc(id, "osc", F(700)) EXCEPT !.osc = OscDoc("sine", freq)]

ChirpLayer(id) == [LayerDoc(id, "chirp", F(600)) EXCEPT !.chirp = ChirpDoc]

FMLayer(id) == [LayerDoc(id, "fm", F(500)) EXCEPT !.fm = FMDoc]

NoiseLayer(id) == [LayerDoc(id, "noise", F(350)) EXCEPT !.noise = NoiseDoc, !.mod = ModDoc]

ImpulseLayer(id, tone) == [LayerDoc(id, "impulse", I(1)) EXCEPT !.impulse = ImpulseDoc(tone)]

NoParams == [drive |-> None, steps |-> None, hold_samples |-> None, time_ms |-> None,
             feedback |-> None, mix |-> None, target_peak |-> None]

FXDoc(type, params) == [type |-> Str(type), enabled |-> B(TRUE), params |-> params]

Softclip(drive) == FXDoc("softclip", [NoParams EXCEPT !.drive = drive])

Delay == FXDoc("delay", [NoParams EXCEPT !.time_ms = F(50000), !.feedback = F(300),
                                        !.mix = F(400)])

Bitcrush == FXDoc("bitcrush", [NoParams EXCEPT !.steps = I(8), !.hold_samples = I(2)])

ParamDoc(id, path) == [id |-> Str(id), label |-> Str(id), kind |-> Str("slider"),
                       path |-> S(path), min |-> None, max |-> None, step |-> None,
                       default |-> None, options |-> None]

Doc(version, duration, layers, fx) ==
    [version |-> version, name |-> Str("test"), description |-> Str("test"),
     sample_rate |-> I(44100), duration |-> duration, seed |-> I(42),
     global |-> [amp |-> F(800), normalize |-> B(FALSE)],
     layers |-> layers, fx_chain |-> fx,
     params |-> <<ParamDoc("amp", <<"layers", "[", "0", "]", ".", "amp">>)>>]

\* the layer lists the validation is tried on
LayerLists ==
    {<<OscLayer(<<"main">>, F(440000))>>,
     <<OscLayer(<<"main">>, F(440000)), ChirpLayer(<<"chirp">>)>>,
     <<OscLayer(<<"main">>, F(440000)), OscLayer(<<"main">>, F(880000))>>,
     <<LayerDoc(<<"main">>, "osc", F(700))>>,
     <<[LayerDoc(<<"main">>, "osc", F(700)) EXCEPT !.chirp = ChirpDoc]>>,
     <<[OscLayer(<<"main">>, F(440000)) EXCEPT !.chirp = ChirpDoc]>>,
     <<[FMLayer(<<"main">>) EXCEPT !.noise = NoiseDoc, !.impulse = ImpulseDoc(None)]>>,
     <<OscLayer(<<"main">>, F(25000000))>>,
     <<OscLayer(<<"main">>, F(19999))>>,
     <<OscLayer(<<"main">>, I(20))>>,
     <<OscLayer(<<"main">>, F(20000000))>>,
     <<FMLayer(<<"a">>), NoiseLayer(<<"a", ".", "b">>)>>,
     <<ImpulseLayer(<<"hit">>, None), ImpulseLayer(<<"ping">>, F(2000000))>>,
     <<LayerDoc(<<"main">>, "noise", F(700))>>,
     <<>>}

FxLists == {<<>>, <<Softclip(F(2000))>>, <<Softclip(None)>>, <<Softclip(F(5000))>>,
            <<Delay, Bitcrush>>}

Versions == {None, Str("soundspec-1"), Str("soundspec-2")}

Durations == {F(29), F(30), F(500), I(3), F(3001)}

Docs == {Doc(v, d, l, f) : v \in Versions, d \in Durations, l \in LayerLists, f \in FxLists}

(***************************************************************************)
(* Paths and values the resolver is called with                            *)
(***************************************************************************)
MaxIndex == 2

MaxUpdates == 1

DigitSym(n) == CHOOSE c \in Digits : DigitVal(c) = n

PathIds == {<<"main">>, <<"chirp">>, <<"a">>, <<"a", ".", "b">>, <<"nonexistent">>}

IndexedRoots ==
    {<<"layers", "[", DigitSym(i), "]">> : i \in 0..MaxIndex}
      \cup {<<"fx", "[", DigitSym(i), "]">> : i \in 0..MaxIndex}

PathRoots ==
    {<<"global">>, <<"duration">>, <<"invalid">>}
      \cup IndexedRoots
      \cup {<<"layers_by_id", ".">> \o id : id \in PathIds}
      \cup {<<"fx_by_type", ".", ty>> : ty \in {"softclip", "delay"}}

PathSuffixes ==
    {<<"amp">>, <<"pan">>, <<"normalize">>, <<"env">>,
     <<"env", ".", "attack">>, <<"env", ".", "sustain">>,
     <<"osc", ".", "freq">>, <<"osc", ".", "waveform">>, <<"osc", ".", "harmonics">>,
     <<"chirp", ".", "f_start">>, <<"fm", ".", "index">>,
     <<"noise", ".", "cutoff_start">>, <<"impulse", ".", "tone_freq">>,
     <<"mod", ".", "tremolo_hz">>, <<"enabled">>, <<"params">>,
     <<"params", ".", "drive">>, <<"params", ".", "steps">>, <<"params", ".", "bogus">>}

\* paths outside the grammar: no "." after the index, segments after the leaf,
\* an unclosed or non-numeric index, an indexed root other than layers and fx
OddPaths ==
    {r \o q : r \in IndexedRoots, q \in {<<"amp">>, <<"enabled">>, <<".">>, <<".", ".", "amp">>}}
      \cup {r \o <<".">> \o q \o <<".", "x">> :
              r \in PathRoots, q \in {<<"amp">>, <<"osc", ".", "freq">>, <<"enabled">>}}
      \cup {<<"duration", ".", "x">>, <<"layers", "[", "0", ".", "amp">>,
            <<"layers", "[", "main", "]", ".", "amp">>,
            <<"layers", "[", "1", "0", "]", ".", "amp">>,
            <<"params", "[", "0", "]", ".", "id">>,
            <<"global", "[", "0", "]", ".", "amp">>,
            <<"x", ".", "layers", "[", "0", "]", ".", "amp">>, <<>>}

Paths ==
    PathRoots \cup {r \o <<".">> \o q : r \in PathRoots, q \in PathSuffixes} \cup OddPaths

Values == {F(2700), I(3), I(0), S(<<"2", ".", "5">>), Str("square"), None}

\* the blocks of a layer and the names of fields inside them
FieldBlocks == {"osc", "chirp", "fm", "noise", "impulse", "mod"}

FieldNames ==
    {"freq", "detune", "waveform", "harmonics", "f_start", "f_end", "vibrato_hz",
     "vibrato_depth", "curve", "carrier_freq", "mod_freq", "index", "brightness", "color",
     "cutoff_start", "cutoff_end", "kind", "width", "tone_freq", "tremolo_hz",
     "tremolo_depth", "pitch_lfo_hz", "pitch_lfo_depth", "bogus"}

FieldRoots ==
    {<<"layers", "[", "0", "]">>, <<"layers", "[", "1", "]">>,
     <<"layers_by_id", ".", "main">>, <<"layers_by_id", ".", "chirp">>}

\* the paths <layer>.<block>.<field>
FieldPaths ==
    {r \o <<".", b, ".", f>> : r \in FieldRoots, b \in FieldBlocks, f \in FieldNames}

\* the validated specs the resolver starts from
PathDocs ==
    {Doc(None, F(500), <<OscLayer(<<"main">>, F(440000)), ChirpLayer(<<"chirp">>)>>,
         <<Softclip(F(2000))>>),
     Doc(None, F(500), <<FMLayer(<<"a">>), NoiseLayer(<<"a", ".", "b">>)>>,
         <<Delay, Softclip(F(2000)), Softclip(F(1000))>>),
     Doc(None, F(500), <<ImpulseLayer(<<"main">>, None), ImpulseLayer(<<"chirp">>, F(2000000))>>,
         <<>>)}

Validated(docs) == {model_validate(d).spec : d \in {e \in docs : model_validate(e).ok}}

NoCall == [op |-> "init"]

NoOut == [t |-> "none"]

(***************************************************************************)
(* renderer.py: arithmetic.  A real number is held in thousandths, as the  *)
(* fields of the spec are; a product or a quotient is rounded to the       *)
(* nearest thousandth.  An angle is held in millionths of a turn, so that  *)
(* phase % (2.0 * math.pi) is exact; a time is held in microseconds.  The  *)
(* transcendental functions are polynomial approximations, good to about   *)
(* two thousandths.                                                        *)
(***************************************************************************)
Abs(n) == IF n < 0 THEN -n ELSE n

\* n / d rounded to the nearest integer, a half away from zero  (d > 0)
Nearest(n, d) == IF n >= 0 THEN (n + d \div 2) \div d ELSE -((d \div 2 - n) \div d)

\* a * b / c rounded, the product never formed whole  (c > 0, a >= 0)
MulDiv(a, b, c) == a * (b \div c) + Nearest(a * (b % c), c)

\* a * b
Mul(a, b) == Nearest(a * b, 1000)

\* a / b  (b # 0)
Div(a, b) == IF b > 0 THEN Nearest(a * 1000, b) ELSE Nearest(-(a * 1000), -b)

\* int(x) of a quotient n / d: truncation toward zero  (d > 0)
Trunc(n, d) == IF n >= 0 THEN n \div d ELSE -((-n) \div d)

\* t = i / sample_rate
Time(i, sample_rate) == Nearest(i * 100000, sample_rate \div 10)

\* the part of an angle that the remainder rest of freq / sample_rate adds
CyclesRest(rest, sample_rate) ==
    (rest \div sample_rate) * 1000 + Nearest((rest % sample_rate) * 1000, sample_rate)

\* the angle 2.0 * math.pi * freq * t, with t = i / sample_rate
Cycles(freq, i, sample_rate) ==
    (freq \div sample_rate) * i * 1000 + CyclesRest((freq % sample_rate) * i, sample_rate)

\* an angle given in radians
Radians(x) == MulDiv(159155, x, 1000)

\* Bhaskara's approximation of the sine on a half turn, P = h * (10000 - h)
\* for the angle h in 1/20000 turn
Bhaskara(P) == Nearest(4 * P, (125000000 - P) \div 1000)

\* the sine of the angle p, in 1/20000 turn, 0 <= p < 20000
SinAt(p) ==
    IF p < 10000 THEN Bhaskara(p * (10000 - p)) ELSE -Bhaskara((p - 10000) * (20000 - p))

\* math.sin of an angle
math_sin(angle) == SinAt((angle % 1000000) \div 50)

\* math.cos of an angle
math_cos(angle) == math_sin(angle + 250000)

\* 2.0 ** n for an integer n >= 0
TwoTo(n) == 2 ^ n

\* 2.0 ** (f / 1000) in millionths, 0 <= f < 1000: the series of exp(f * ln 2)
Exp2Fraction(f) ==
    1000000
      + (((((((((1333 * f) \div 1000 + 9618) * f) \div 1000 + 55504) * f) \div 1000
              + 240227) * f) \div 1000 + 693147) * f) \div 1000

\* m * 2.0 ** k, m in millionths
Exp2Scaled(k, m) ==
    IF k >= 0 THEN Nearest(m, 1000) * TwoTo(k)
    ELSE IF k < -11 THEN 0
    ELSE Nearest(m, 1000 * TwoTo(-k))

\* 2.0 ** y
Exp2(y) == Exp2Scaled(y \div 1000, Exp2Fraction(y % 1000))

\* math.exp(x)
math_exp(x) == IF x < -20000 THEN 0 ELSE Exp2(Nearest(x * 1443, 1000))

\* 2 * (z + z^3 / 3 + z^5 / 5) with w = z * z, in hundred-thousandths
LnSeries(z, w) == 2 * Nearest(z * (10000 + w \div 30 + Nearest(w * w, 100000) \div 50), 10000)

\* z = (m - 1) / (m + 1) in hundred-thousandths, m in millionths
LnArgument(m) == Nearest((m - 1000000) * 100, (m + 1000000) \div 1000)

LnOf(z) == LnSeries(z, Nearest(z * z, 100000))

\* ln(m) for m in millionths, 1 <= m < 2
LnMantissa(m) == LnOf(LnArgument(m))

\* math.log2(r) for r in [2 ** k, 2 ** (k + 1))
Log2Within(r, k) ==
    k * 1000
      + Nearest(LnMantissa(IF k >= 0 THEN Nearest(r * 1000, TwoTo(k))
                           ELSE r * TwoTo(-k) * 1000) * 14427, 1000000)

\* math.log2(r)  (r > 0)
Log2(r) ==
    Log2Within(r, CHOOSE j \in -10..21 :
                     IF j >= 0 THEN 1000 * TwoTo(j) <= r /\ r < 2000 * TwoTo(j)
                     ELSE 1000 <= r * TwoTo(-j) /\ r * TwoTo(-j) < 2000)

\* base ** e  (base > 0)
Pow(base, e) == Exp2(Nearest(Log2(base) * e, 1000))

(***************************************************************************)
(* renderer.py: loops.  A for loop that carries values from one sample to  *)
(* the next is a scan; buffers are Python lists, indexed from 0 in the     *)
(* code and from 1 here.                                                   *)
(***************************************************************************)
\* for i in range(lo, hi + 1): st, y = Step(st, i); out.append(y).  The range
\* is cut into eight runs, each resumed from the state the run before left
RECURSIVE Scan(_, _, _, _)
Scan(Step(_, _), st, lo, hi) ==
    IF lo > hi THEN [out |-> <<>>, st |-> st]
    ELSE IF lo = hi THEN LET s == Step(st, lo) IN [out |-> <<s.y>>, st |-> s.st]
    ELSE LET Cut(j) == lo + ((hi - lo + 1) * j) \div 8
             a == Scan(Step, st, lo, Cut(1) - 1)
             b == Scan(Step, a.st, Cut(1), Cut(2) - 1)
             c == Scan(Step, b.st, Cut(2), Cut(3) - 1)
             d == Scan(Step, c.st, Cut(3), Cut(4) - 1)
             e == Scan(Step, d.st, Cut(4), Cut(5) - 1)
             f == Scan(Step, e.st, Cut(5), Cut(6) - 1)
             g == Scan(Step, f.st, Cut(6), Cut(7) - 1)
             h == Scan(Step, g.st, Cut(7), hi)
         IN  [out |-> ((a.out \o b.out) \o (c.out \o d.out))
                        \o ((e.out \o f.out) \o (g.out \o h.out)),
              st |-> h.st]

\* a step of a loop whose sample is the value it carries on
Carry(y) == [st |-> y, y |-> y]

\* sum(q) of a list of numbers
RECURSIVE SumSeq(_)
SumSeq(q) == IF q = <<>> THEN 0 ELSE Head(q) + SumSeq(Tail(q))

\* max(abs(s) for s in samples[lo..hi])  (lo <= hi)
RECURSIVE Peak(_, _, _)
Peak(samples, lo, hi) ==
    IF lo = hi THEN Abs(samples[lo])
    ELSE LET mid == (lo + hi) \div 2
             l == Peak(samples, lo, mid)
             r == Peak(samples, mid + 1, hi)
         IN  IF l >= r THEN l ELSE r

\* [0.0] * n
Zeros(n) == [i \in 1..n |-> 0]

\* a list of the code: its items are values, computed when the list is built
List(f) == f \o <<>>

\* what a generator leaves: the buffer it returns and the generator's state,
\* or an exception
Done(samples, rng) == [exc |-> FALSE, samples |-> List(samples), rng |-> rng]

Raised(rng) == [exc |-> TRUE, samples |-> <<>>, rng |-> rng]

\* one generator seeded at the first render and shared by all later ones
Random_shared(seed) == (seed + renders) % 65536

\* a generator that starts from the same state whatever the seed
Random_unseeded(seed) == 42

\* random.Random(seed): the generator is a linear congruential one, its
\* state the last number drawn
Random(seed) == seed % 65536

\* the number the generator draws after rng, as state and as a float in [0, 1)
Drawn(n) == [st |-> n, y |-> (n * 1000) \div 65536]

\* rng.random()
random(rng) == Drawn((25173 * rng + 13849) % 65536)

\* a + (b - a) * r.y for the draw r
Between(r, a, b) == [st |-> r.st, y |-> a + Mul(b - a, r.y)]

\* rng.uniform(a, b)
uniform(rng, a, b) == Between(random(rng), a, b)

\* the waveforms with the triangle in step with the sine: 0 at phase 0, 1 at
\* a quarter of the period, -1 at three quarters
Wave_aligned(waveform, p) ==
    CASE waveform = Str("sine") -> math_sin(p)
      [] waveform = Str("triangle") ->
           Nearest(4 * Abs(((p + 750000) % 1000000) - 500000), 1000) - 1000
      [] waveform = Str("square") -> IF p < 500000 THEN 1000 ELSE -1000
      [] waveform = Str("saw") -> Nearest(2 * p, 1000) - 1000
      [] OTHER -> 0

\* the waveform at the phase p, 0 <= p < one turn
Wave(waveform, p) ==
    CASE waveform = Str("sine") -> math_sin(p)
      [] waveform = Str("triangle") -> Nearest(4 * Abs(p - 500000), 1000) - 1000
      [] waveform = Str("square") -> IF p < 500000 THEN 1000 ELSE -1000
      [] waveform = Str("saw") -> Nearest(2 * p, 1000) - 1000
      [] OTHER -> 0

generate_waveform(waveform, phase) == Wave(waveform, phase % 1000000)

\* x - (x ** 3) / 3.0
Cubic(x) == x - Nearest(Mul(Mul(x, x), x), 3)

softclip(x) == IF x > 1000 THEN 1000 ELSE IF x < -1000 THEN -1000 ELSE Cubic(x)

\* the harmonics added to one sample
Harmonics(harmonics, waveform, phase_rad) ==
    SumSeq([h \in DOMAIN harmonics |->
              Mul(generate_waveform(waveform, MulDiv(harmonics[h].mul.v, phase_rad, 1000)),
                  harmonics[h].amp.v)])

\* one sample of an oscillator or a chirp at the phase phase_rad
Voice(p, phase_rad) ==
    generate_waveform(p.waveform, phase_rad) + Harmonics(p.harmonics, p.waveform, phase_rad)

\* render_osc taking one value from the stream
render_osc_drawing(layer, num_samples, sample_rate, rng) ==
    Done([k \in 1..num_samples |->
            Voice(layer.osc,
                  Cycles(MulDiv(Exp2(Nearest(layer.osc.detune.v, 1200)), layer.osc.freq.v, 1000),
                         k - 1, sample_rate)
                    + Radians(layer.phase.v))],
         random(rng).st)

render_osc(layer, num_samples, sample_rate, rng) ==
    Done([k \in 1..num_samples |->
            Voice(layer.osc,
                  Cycles(MulDiv(Exp2(Nearest(layer.osc.detune.v, 1200)), layer.osc.freq.v, 1000),
                         k - 1, sample_rate)
                    + Radians(layer.phase.v))],
         rng)

\* a / b for frequencies, which may be too large to scale the dividend
Quot(a, b) == IF a < 2000000 THEN Div(a, b) ELSE Nearest(a, Nearest(b, 1000))

\* the frequency a sweep from f0 to f1 reaches after the fraction frac
Sweep(f0, f1, curve, frac) ==
    IF curve = Str("linear") THEN f0 + MulDiv(frac, f1 - f0, 1000)
    ELSE MulDiv(Pow(Quot(f1, f0), frac), f0, 1000)

\* freq *= (1.0 + vibrato * chirp.vibrato_depth), if chirp.vibrato_hz > 0
Vibrato(chirp, freq, i, sample_rate) ==
    IF chirp.vibrato_hz.v > 0
    THEN MulDiv(1000 + Mul(math_sin(Cycles(chirp.vibrato_hz.v, i, sample_rate)),
                           chirp.vibrato_depth.v),
                freq, 1000)
    ELSE freq

\* the body of the loop of render_chirp
ChirpStep(chirp, num_samples, sample_rate, phase, i) ==
    [st |-> phase + MulDiv(1000,
                           Vibrato(chirp,
                                   Sweep(chirp.f_start.v, chirp.f_end.v, chirp.curve,
                                         Nearest(i * 1000, num_samples)),
                                   i, sample_rate),
                           sample_rate),
     y |-> Voice(chirp, phase)]

render_chirp(layer, num_samples, sample_rate, rng) ==
    LET Step(phase, i) == ChirpStep(layer.chirp, num_samples, sample_rate, phase, i)
    IN  Done(Scan(Step, Radians(layer.phase.v), 0, num_samples - 1).out, rng)

\* the brightness of render_fm: a soft clip of the sample s
Brightness(fm, s) ==
    IF fm.brightness.v > 500 THEN softclip(Mul(s, 1000 + (fm.brightness.v - 500) * 2)) ELSE s

\* the body of the loop of render_fm
FmSample(fm, phase, i, sample_rate) ==
    Brightness(fm,
               math_sin(Cycles(fm.carrier_freq.v, i, sample_rate)
                          + Radians(Mul(math_sin(Cycles(fm.mod_freq.v, i, sample_rate)),
                                        fm.index.v))
                          + Radians(phase.v)))

render_fm(layer, num_samples, sample_rate, rng) ==
    Done([k \in 1..num_samples |-> FmSample(layer.fm, layer.phase, k - 1, sample_rate)], rng)

\* the cutoff at sample i of n (the sweep of the filter loops)
Cutoff(filt, i, n) ==
    IF filt.cutoff_end # None
    THEN Sweep(filt.cutoff.v, filt.cutoff_end.v, filt.curve, Nearest(i * 1000, n))
    ELSE filt.cutoff.v

\* 2.0 * math.pi * cutoff, in Hz
Omega(cutoff) == MulDiv(6283, cutoff, 1000)

\* dt / (rc + dt), with w = 1 / rc
LowpassAlpha(w, sample_rate) == Nearest(w, (sample_rate * 1000 + w) \div 1000)

\* rc / (rc + dt)
HighpassAlpha(w, sample_rate) == Nearest(sample_rate * 1000, (sample_rate * 1000 + w) \div 1000)

\* y = alpha * samples[i] + (1.0 - alpha) * y_prev
LowpassStep(alpha, x, y_prev) == Carry(Mul(alpha, x) + Mul(1000 - alpha, y_prev))

apply_onepole_lp(samples, filt, sample_rate) ==
    LET Step(y_prev, i) ==
            LowpassStep(LowpassAlpha(Omega(Cutoff(filt, i, Len(samples))), sample_rate),
                        samples[i + 1], y_prev)
    IN  Scan(Step, 0, 0, Len(samples) - 1).out

\* y = alpha * (y_prev + samples[i] - x_prev)
HighpassStep(y, x) == [st |-> [y |-> y, x |-> x], y |-> y]

apply_onepole_hp(samples, filt, sample_rate) ==
    LET Step(prev, i) ==
            HighpassStep(Mul(HighpassAlpha(Omega(Cutoff(filt, i, Len(samples))), sample_rate),
                             prev.y + samples[i + 1] - prev.x),
                         samples[i + 1])
    IN  Scan(Step, [y |-> 0, x |-> 0], 0, Len(samples) - 1).out

\* the coefficients b0, b1, b2, a0, a1, a2 of the RBJ cookbook
Biquad(type, cos_w0, alpha) ==
    CASE type = Str("biquad_lp") ->
           <<(1000 - cos_w0) \div 2, 1000 - cos_w0, (1000 - cos_w0) \div 2,
             1000 + alpha, -2 * cos_w0, 1000 - alpha>>
      [] type = Str("biquad_hp") ->
           <<(1000 + cos_w0) \div 2, -(1000 + cos_w0), (1000 + cos_w0) \div 2,
             1000 + alpha, -2 * cos_w0, 1000 - alpha>>
      [] type = Str("biquad_bp") ->
           <<alpha, 0, -alpha, 1000 + alpha, -2 * cos_w0, 1000 - alpha>>
      [] OTHER -> <<1000, -2 * cos_w0, 1000, 1000 + alpha, -2 * cos_w0, 1000 - alpha>>

\* the coefficients at the angle w0
BiquadAt(filt, w0) == Biquad(filt.type, math_cos(w0), Div(math_sin(w0), 2 * filt.q.v))

\* x2, x1, y2, y1 = x1, samples[i], y1, y
BiquadNext(m, x, y) == [st |-> [x1 |-> x, x2 |-> m.x1, y1 |-> y, y2 |-> m.y1], y |-> y]

\* the coefficients normalized by a0, and the filter applied
BiquadStep(c, m, x) ==
    BiquadNext(m, x,
               Mul(Div(c[1], c[4]), x) + Mul(Div(c[2], c[4]), m.x1)
                 + Mul(Div(c[3], c[4]), m.x2) - Mul(Div(c[5], c[4]), m.y1)
                 - Mul(Div(c[6], c[4]), m.y2))

apply_biquad(samples, filt, sample_rate) ==
    LET Step(m, i) ==
            BiquadStep(BiquadAt(filt, MulDiv(1000, Cutoff(filt, i, Len(samples)), sample_rate)),
                       m, samples[i + 1])
    IN  Scan(Step, [x1 |-> 0, x2 |-> 0, y1 |-> 0, y2 |-> 0], 0, Len(samples) - 1).out

apply_filter(samples, filt, sample_rate) ==
    CASE filt.type = Str("lp1") -> apply_onepole_lp(samples, filt, sample_rate)
      [] filt.type = Str("hp1") -> apply_onepole_hp(samples, filt, sample_rate)
      [] OTHER -> apply_biquad(samples, filt, sample_rate)

\* for filt in layer.filter: samples = apply_filter(samples, filt, sample_rate)
RECURSIVE Filtered(_, _, _)
Filtered(samples, filters, sample_rate) ==
    IF filters = <<>> THEN samples
    ELSE Filtered(apply_filter(samples, Head(filters), sample_rate), Tail(filters), sample_rate)

\* the Filter that render_noise builds for its cutoff sweep
NoiseFilter(noise) ==
    [type |-> Str("biquad_lp"), cutoff |-> noise.cutoff_start, q |-> None,
     cutoff_end |-> IF noise.cutoff_end # None THEN noise.cutoff_end ELSE noise.cutoff_start,
     curve |-> noise.cutoff_curve]

\* the pink filter bank after the draw white, from the bank b; the
\* coefficients to four decimals
PinkBank(b, white) ==
    <<Nearest(9989 * b[1], 10000) + Nearest(white * 555, 10000),
      Nearest(9933 * b[2], 10000) + Nearest(white * 751, 10000),
      Nearest(9690 * b[3], 10000) + Nearest(white * 1539, 10000),
      Nearest(8665 * b[4], 10000) + Nearest(white * 3105, 10000),
      Nearest(5500 * b[5], 10000) + Nearest(white * 5330, 10000),
      Nearest(-7616 * b[6], 10000) - Nearest(white * 169, 10000),
      Nearest(white * 1159, 10000)>>

\* samples[i] = (b0 + b1 + b2 + b3 + b4 + b5 + b6 + white * 0.5362) * 0.11,
\* b6 still the one of the sample before
PinkSample(b, b6, white) ==
    Nearest((b[1] + b[2] + b[3] + b[4] + b[5] + b[6] + b6 + Nearest(white * 5362, 10000)) * 11,
            100)

\* what one pass of the pink loop leaves, bank the filter bank after it
PinkOut(m, w, bank) ==
    [st |-> [rng |-> w.st, b |-> bank], y |-> PinkSample(bank, m.b[7], w.y)]

\* the body of the pink loop, w the draw
PinkStep(m, w) == PinkOut(m, w, PinkBank(m.b, w.y))

\* the cutoff sweep at the end of render_noise
NoiseSweep(noise, samples, rng, sample_rate) ==
    IF noise.cutoff_start = None THEN Done(samples, rng)
    ELSE IF ScalarErrors(NoiseFilter(noise), Filter) # {} THEN Raised(rng)
    ELSE Done(apply_filter(samples, ScalarBuild(NoiseFilter(noise), Filter), sample_rate), rng)

\* what the noise loop leaves: its samples and the generator
NoiseDrawn(white, st) == [samples |-> white.out, rng |-> st]

render_noise(layer, num_samples, sample_rate, rng) ==
    LET White(g, i) == uniform(g, -1000, 1000)
        Coloured(m, i) == PinkStep(m, uniform(m.rng, -1000, 1000))
        Finish(drawn) == NoiseSweep(layer.noise, drawn.samples, drawn.rng, sample_rate)
        Whole(scan) == Finish(NoiseDrawn(scan, scan.st))
        Banked(scan) == Finish(NoiseDrawn(scan, scan.st.rng))
    IN  IF layer.noise.color = Str("white") THEN Whole(Scan(White, rng, 0, num_samples - 1))
        ELSE Banked(Scan(Coloured, [rng |-> rng, b |-> <<0, 0, 0, 0, 0, 0, 0>>],
                         0, num_samples - 1))

\* samples[i] = math.exp(-i / (width_samples * 0.3))
Click(i, width_samples) == math_exp(-Nearest(i * 10000, width_samples * 3))

\* samples[i] = (1.0 - i / width_samples) * (rng.random() * 0.3 + 0.7)
Tap(r, i, width_samples) ==
    [st |-> r.st, y |-> Mul(1000 - Nearest(i * 1000, width_samples), Nearest(r.y * 3, 10) + 700)]

\* the three inharmonic partials at the angle turn of the fundamental
Partials(turn) ==
    math_sin(turn) + Nearest(math_sin(MulDiv(2300, turn, 1000)), 2)
      + Nearest(3 * math_sin(MulDiv(3700, turn, 1000)), 10)

\* samples[i] = tone * env
Ping(imp, i, sample_rate) ==
    Mul(Partials(Cycles(IF imp.tone_freq # None /\ imp.tone_freq.v # 0 THEN imp.tone_freq.v
                        ELSE 2000000,
                        i, sample_rate)),
        math_exp(-Nearest(Time(i, sample_rate), imp.width.v)))

\* the impulse of width_samples samples
Impulse(imp, width_samples, num_samples, sample_rate, rng) ==
    LET TapStep(g, i) == Tap(random(g), i, width_samples)
        Tapped(tap) ==
            Done([k \in 1..num_samples |-> IF k <= width_samples THEN tap.out[k] ELSE 0],
                 tap.st)
    IN  CASE imp.kind = Str("click") ->
               Done([k \in 1..num_samples |->
                       IF k <= width_samples THEN Click(k - 1, width_samples) ELSE 0],
                    rng)
          [] imp.kind = Str("tap") ->
               Tapped(Scan(TapStep, rng, 0,
                           (IF width_samples < num_samples THEN width_samples
                            ELSE num_samples) - 1))
          [] imp.kind = Str("metal_ping") ->
               Done([k \in 1..num_samples |->
                       IF k <= width_samples * 10 THEN Ping(imp, k - 1, sample_rate) ELSE 0],
                    rng)
          [] OTHER -> Done(Zeros(num_samples), rng)

render_impulse(layer, num_samples, sample_rate, rng) ==
    Impulse(layer.impulse, Trunc(layer.impulse.width.v * sample_rate, 1000), num_samples,
            sample_rate, rng)

\* a / b for a time a and a span b, either sign  (b # 0)
Over(a, b) == IF b > 0 THEN Nearest(a, b) ELSE Nearest(-a, -b)

\* max(0.0, amp)
Positive(amp) == IF amp > 0 THEN amp ELSE 0

\* the ADSR branch of apply_envelope at time t (microseconds)
Adsr(env, t, sustain_level, release_time, release_start) ==
    IF t < env.attack.v * 1000 THEN Over(t, env.attack.v)
    ELSE IF t < (env.attack.v + env.decay.v) * 1000
    THEN 1000 - Mul(1000 - sustain_level, Over(t - env.attack.v * 1000, env.decay.v))
    ELSE IF t < release_start THEN sustain_level
    ELSE Mul(sustain_level, 1000 - Over(t - release_start, release_time))

\* release_time = env.release if env.release is not None else 0.1
ReleaseTime(env) == IF env.release # None THEN env.release.v ELSE 100

\* the exp envelope without its attack ramp: the decay alone
EnvelopeAmp_unramped(env, t, duration) ==
    CASE env.shape = Str("exp") -> Mul(1000, math_exp(-Over(t, env.decay.v)))
      [] env.shape = Str("lin") ->
           IF t < env.attack.v * 1000 THEN Over(t, env.attack.v)
           ELSE Positive(1000 - Over(t - env.attack.v * 1000, env.decay.v))
      [] env.shape = Str("adsr") ->
           Adsr(env, t, IF env.sustain # None THEN env.sustain.v ELSE 500, ReleaseTime(env),
                (duration.v - ReleaseTime(env)) * 1000)
      [] OTHER -> 1000

\* the amplitude apply_envelope gives the sample at time t
EnvelopeAmp(env, t, duration) ==
    CASE env.shape = Str("exp") ->
           Mul(IF t < env.attack.v * 1000 THEN Over(t, env.attack.v) ELSE 1000,
               math_exp(-Over(t, env.decay.v)))
      [] env.shape = Str("lin") ->
           IF t < env.attack.v * 1000 THEN Over(t, env.attack.v)
           ELSE Positive(1000 - Over(t - env.attack.v * 1000, env.decay.v))
      [] env.shape = Str("adsr") ->
           Adsr(env, t, IF env.sustain # None THEN env.sustain.v ELSE 500, ReleaseTime(env),
                (duration.v - ReleaseTime(env)) * 1000)
      [] OTHER -> 1000

\* whether the envelope divides by zero at time t
EnvelopeDividesByZero(env, t, duration) ==
    CASE env.shape = Str("exp") -> env.decay.v = 0
      [] env.shape = Str("lin") -> t >= env.attack.v * 1000 /\ env.decay.v = 0
      [] env.shape = Str("adsr") ->
           /\ t >= (env.attack.v + env.decay.v) * 1000
           /\ t >= (duration.v - ReleaseTime(env)) * 1000
           /\ ReleaseTime(env) = 0
      [] OTHER -> FALSE

\* a buffer, or the exception that ended the stage
Kept(samples) == [exc |-> FALSE, samples |-> List(samples)]

Thrown == [exc |-> TRUE, samples |-> <<>>]

apply_envelope(samples, env, sample_rate, duration) ==
    IF /\ env.decay.v = 0 \/ (env.release # None /\ env.release.v = 0)
       /\ \E i \in 0..(Len(samples) - 1) :
             EnvelopeDividesByZero(env, Time(i, sample_rate), duration)
    THEN Thrown
    ELSE Kept([k \in 1..Len(samples) |->
                 Mul(samples[k],
                     Positive(EnvelopeAmp(env, Time(k - 1, sample_rate), duration)))])

\* the tremolo gain without the test of the rate
Tremolo_unguarded(mod, i, sample_rate) ==
    1000 - Nearest(mod.tremolo_depth.v
                     * (math_sin(Cycles(mod.tremolo_hz.v, i, sample_rate)) + 1000), 2000)

\* the tremolo gain with the pitch LFO rate added to its rate
Tremolo_pitched(mod, i, sample_rate) ==
    IF mod.tremolo_hz.v > 0
    THEN 1000 - Nearest(mod.tremolo_depth.v
                          * (math_sin(Cycles(mod.tremolo_hz.v + mod.pitch_lfo_hz.v, i,
                                             sample_rate)) + 1000), 2000)
    ELSE 1000

\* amp_mod at sample i
Tremolo(mod, i, sample_rate) ==
    IF mod.tremolo_hz.v > 0
    THEN 1000 - Nearest(mod.tremolo_depth.v
                          * (math_sin(Cycles(mod.tremolo_hz.v, i, sample_rate)) + 1000), 2000)
    ELSE 1000

apply_modulation(samples, mod, sample_rate) ==
    List([k \in 1..Len(samples) |-> Mul(samples[k], Tremolo(mod, k - 1, sample_rate))])

\* samples[i] *= layer.amp, once the envelope is applied
Amplified(layer, shaped, rng) ==
    IF shaped.exc THEN Raised(rng)
    ELSE Done([k \in 1..Len(shaped.samples) |-> Mul(shaped.samples[k], layer.amp.v)], rng)

\* the modulation and the filters of a layer
Shaped(layer, samples, sample_rate) ==
    Filtered(IF layer.mod # None THEN apply_modulation(samples, layer.mod, sample_rate)
             ELSE samples,
             layer.filter, sample_rate)

\* render_layer from the base signal on
Processed(layer, base, duration, sample_rate) ==
    IF base.exc THEN Raised(base.rng)
    ELSE Amplified(layer,
                   apply_envelope(Shaped(layer, base.samples, sample_rate), layer.env,
                                  sample_rate, duration),
                   base.rng)

\* the base signal of a layer
Base(layer, num_samples, sample_rate, rng) ==
    CASE layer.type = Str("osc") -> render_osc(layer, num_samples, sample_rate, rng)
      [] layer.type = Str("chirp") -> render_chirp(layer, num_samples, sample_rate, rng)
      [] layer.type = Str("fm") -> render_fm(layer, num_samples, sample_rate, rng)
      [] layer.type = Str("noise") -> render_noise(layer, num_samples, sample_rate, rng)
      [] layer.type = Str("impulse") -> render_impulse(layer, num_samples, sample_rate, rng)
      [] OTHER -> Done(Zeros(num_samples), rng)

\* num_samples = round(duration * sample_rate)
NumSamples_rounded(duration, sample_rate) == Nearest(duration.v * sample_rate, 1000)

\* num_samples = int(duration * sample_rate)
NumSamples(duration, sample_rate) == Trunc(duration.v * sample_rate, 1000)

render_layer(layer, duration, sample_rate, rng) ==
    Processed(layer, Base(layer, NumSamples(duration, sample_rate), sample_rate, rng),
              duration, sample_rate)

\* apply_softclip that leaves the drive out
apply_softclip_undriven(samples, drive) ==
    Kept([k \in 1..Len(samples) |-> softclip(samples[k])])

apply_softclip(samples, drive) ==
    IF samples # <<>> /\ drive = None THEN Thrown
    ELSE Kept([k \in 1..Len(samples) |-> softclip(Mul(samples[k], drive.v))])

\* round(n / d): to the nearest integer, a half to the even one  (d > 0)
round(n, d) ==
    IF 2 * (n % d) > d \/ (2 * (n % d) = d /\ (n \div d) % 2 = 1) THEN n \div d + 1
    ELSE n \div d

\* quantized = round(s * steps) / steps if steps > 0 else s
Quantized(s, steps) == IF steps > 0 THEN Nearest(round(s * steps, 1000) * 1000, steps) ELSE s

apply_bitcrush(samples, steps, hold_samples) ==
    IF samples = <<>> THEN Kept(<<>>)
    ELSE IF hold_samples = None \/ hold_samples.v = 0 \/ steps = None THEN Thrown
    ELSE Kept([k \in 1..Len(samples) |->
                 Quantized(samples[k - ((k - 1) % Abs(hold_samples.v))], steps.v)])

\* delay_samples = int(time_ms * sample_rate / 1000.0)
DelaySamples(time_ms, sample_rate) == Trunc(time_ms.v * (sample_rate \div 10), 100000)

\* one turn of the loop of apply_delay on the sample s: delayed = buffer[0],
\* output = s + delayed * mix, buffer.append(s + delayed * feedback),
\* buffer.pop(0)
RingStep(buffer, s, feedback, mix) ==
    [st |-> Tail(Append(buffer, s + Mul(buffer[1], feedback))),
     y |-> s + Mul(buffer[1], mix)]

\* the loop of apply_delay with a buffer that is never popped
Delayed_unpopped(samples, delay_samples, feedback, mix) ==
    LET Turn(buffer, i) ==
            [st |-> Append(buffer, samples[i] + Mul(buffer[1], feedback)),
             y |-> samples[i] + Mul(buffer[1], mix)]
    IN  Scan(Turn, Zeros(delay_samples), 1, Len(samples)).out

\* buffer = [0.0] * delay_samples, then the loop over samples
Delayed(samples, delay_samples, feedback, mix) ==
    LET Turn(buffer, i) == RingStep(buffer, samples[i], feedback, mix)
    IN  Scan(Turn, Zeros(delay_samples), 1, Len(samples)).out

apply_delay(samples, time_ms, feedback, mix, sample_rate) ==
    IF time_ms = None THEN Thrown
    ELSE IF samples = <<>> THEN Kept(<<>>)
    ELSE IF DelaySamples(time_ms, sample_rate) <= 0 \/ mix = None \/ feedback = None
    THEN Thrown
    ELSE Kept(Delayed(samples, DelaySamples(time_ms, sample_rate), feedback.v, mix.v))

\* the gain taken to be target_peak itself, whatever the peak
Gained_flat(samples, target_peak, peak) ==
    IF peak > 0
    THEN IF target_peak = None THEN Thrown
         ELSE Kept([k \in 1..Len(samples) |-> Mul(samples[k], target_peak.v)])
    ELSE Kept(samples)

\* gain = target_peak / peak, if peak > 0.0
Gained(samples, target_peak, peak) ==
    IF peak > 0
    THEN IF target_peak = None THEN Thrown
         ELSE Kept([k \in 1..Len(samples) |-> Mul(samples[k], Div(target_peak.v, peak))])
    ELSE Kept(samples)

normalize_samples(samples, target_peak) ==
    IF samples = <<>> THEN Thrown
    ELSE Gained(samples, target_peak, Peak(samples, 1, Len(samples)))

apply_fx(samples, fx, sample_rate) ==
    CASE fx.type = Str("softclip") -> apply_softclip(samples, fx.params.drive)
      [] fx.type = Str("bitcrush") ->
           apply_bitcrush(samples, fx.params.steps, fx.params.hold_samples)
      [] fx.type = Str("delay") ->
           apply_delay(samples, fx.params.time_ms, fx.params.feedback, fx.params.mix,
                       sample_rate)
      [] fx.type = Str("normalize") -> normalize_samples(samples, fx.params.target_peak)
      [] OTHER -> Kept(samples)

\* for layer in spec.layers: samples[i] += layer_samples[i], from layer k on
RECURSIVE MixLayers(_, _, _, _)
RECURSIVE Mixed(_, _, _, _)
MixLayers(s, k, samples, rng) ==
    IF k > Len(s.layers) THEN Done(samples, rng)
    ELSE Mixed(s, k, samples, render_layer(s.layers[k], s.duration, s.sample_rate.v, rng))

\* the layer l mixed into samples
Mixed(s, k, samples, l) ==
    IF l.exc THEN Raised(l.rng)
    ELSE MixLayers(s, k + 1, List([i \in 1..Len(samples) |-> samples[i] + l.samples[i]]),
                   l.rng)

\* for fx in spec.fx_chain: if fx.enabled: samples = apply_fx(...), from fx k on
RECURSIVE FxChain(_, _, _)
RECURSIVE Applied(_, _, _)
FxChain(s, k, samples) ==
    IF k > Len(s.fx_chain) THEN Kept(samples)
    ELSE IF ~s.fx_chain[k].enabled.v THEN FxChain(s, k + 1, samples)
    ELSE Applied(s, k, apply_fx(samples, s.fx_chain[k], s.sample_rate.v))

\* the chain after the effect k left r
Applied(s, k, r) == IF r.exc THEN r ELSE FxChain(s, k + 1, r.samples)

\* if spec.global_.normalize: samples = normalize_samples(samples, 0.95)
Normalized(s, processed) ==
    IF processed.exc THEN processed
    ELSE IF s.global_.normalize.v THEN normalize_samples(processed.samples, F(950))
    ELSE processed

\* render_samples with the global amp applied after the effects
GainedLast(s, processed) ==
    IF processed.exc THEN processed
    ELSE Kept([i \in 1..Len(processed.samples) |-> Mul(processed.samples[i], s.global_.amp.v)])

Mastered_gain_last(s, mixed) ==
    IF mixed.exc THEN Thrown
    ELSE Normalized(s, GainedLast(s, FxChain(s, 1, mixed.samples)))

\* render_samples from the mix of the layers on
Mastered(s, mixed) ==
    IF mixed.exc THEN Thrown
    ELSE Normalized(s, FxChain(s, 1, [i \in 1..Len(mixed.samples) |->
                                        Mul(mixed.samples[i], s.global_.amp.v)]))

render_samples(s) ==
    Mastered(s, MixLayers(s, 1, Zeros(NumSamples(s.duration, s.sample_rate.v)),
                          Random(s.seed.v)))

(***************************************************************************)
(* util_wav.py.  A bytes object is the sequence of its byte values.        *)
(***************************************************************************)
\* struct.pack('<H', n)
PackH(n) == <<n % 256, (n \div 256) % 256>>

\* struct.pack('<I', n)
PackI(n) == <<n % 256, (n \div 256) % 256, (n \div 65536) % 256, (n \div 16777216) % 256>>

\* max(-1.0, min(1.0, sample))
Clamped(sample) == IF sample > 1000 THEN 1000 ELSE IF sample < -1000 THEN -1000 ELSE sample

\* the product rounded down instead of toward zero
Pcm16_floored(sample) == (((Clamped(sample) * 32767) \div 1000) + 65536) % 65536

\* int(sample * 32767), as the unsigned value of the two bytes '<h' packs
Pcm16(sample) == (Trunc(Clamped(sample) * 32767, 1000) + 65536) % 65536

float_to_pcm16(samples) ==
    [k \in 1..(2 * Len(samples)) |-> PackH(Pcm16(samples[(k + 1) \div 2]))[2 - (k % 2)]]

\* the file around the data: headers, sizes, format
Wav(pcm_data, sample_rate) ==
    <<82, 73, 70, 70>> \o PackI(36 + Len(pcm_data)) \o <<87, 65, 86, 69>>
      \o <<102, 109, 116, 32>> \o PackI(16) \o PackH(1) \o PackH(1)
      \o PackI(sample_rate) \o PackI((sample_rate * 1 * 16) \div 8) \o PackH((1 * 16) \div 8)
      \o PackH(16)
      \o <<100, 97, 116, 97>> \o PackI(Len(pcm_data)) \o pcm_data

encode_wav(samples, sample_rate) == Wav(float_to_pcm16(samples), sample_rate)

\* the bytes of the rendered samples r, or the exception render_samples raised
Encoded(r, sample_rate) ==
    IF r.exc THEN [exc |-> TRUE, bytes |-> <<>>]
    ELSE [exc |-> FALSE, bytes |-> encode_wav(r.samples, sample_rate)]

render_wav_bytes(s) == Encoded(render_samples(s), s.sample_rate.v)

(***************************************************************************)
(* Rendering: the specs the engine is run on and the controls moved        *)
(***************************************************************************)
MaxRenders == 2

RenderDoc(rate, duration, seed, layers, fx) ==
    [Doc(None, duration, layers, fx) EXCEPT !.sample_rate = I(rate), !.seed = I(seed)]

ShortDelay == FXDoc("delay", [NoParams EXCEPT !.time_ms = F(5000), !.feedback = F(300),
                                             !.mix = F(400)])

\* a square wave at full level from the first sample on: no attack
LoudLayer(id, freq, amp) ==
    [OscLayer(id, freq) EXCEPT !.amp = amp, !.osc.waveform = Str("square"),
                               !.env = EnvDoc(0, 300, "exp")]

\* a noise layer turned down to nothing
MuteLayer(id) == [NoiseLayer(id) EXCEPT !.amp = F(0)]

Normalizing(d) == [d EXCEPT !.global.normalize = B(TRUE)]

RenderDocs ==
    {RenderDoc(22050, F(30), 42,
               <<LoudLayer(<<"a">>, F(440000), F(1000)), LoudLayer(<<"b">>, F(880000), F(700))>>,
               <<>>),
     Normalizing(RenderDoc(22050, F(30), 42, <<MuteLayer(<<"main">>)>>, <<>>)),
     RenderDoc(22050, F(30), 42, <<NoiseLayer(<<"main">>)>>, <<>>),
     RenderDoc(22050, F(30), 42, <<OscLayer(<<"main">>, F(440000))>>, <<Softclip(F(2000))>>),
     RenderDoc(22050, F(31), 7, <<NoiseLayer(<<"main">>)>>, <<Softclip(None)>>),
     RenderDoc(44100, F(100), 42, <<OscLayer(<<"main">>, F(440000))>>, <<>>),
     RenderDoc(48000, F(30), 42, <<ImpulseLayer(<<"main">>, None), ChirpLayer(<<"chirp">>)>>,
               <<ShortDelay, Bitcrush>>),
     RenderDoc(22050, F(31), 7, <<FMLayer(<<"a">>), NoiseLayer(<<"a", ".", "b">>)>>,
               <<Bitcrush, Softclip(F(1000))>>)}

\* the controls moved between renders: path and value
RenderUpdates ==
    {<<(<<"fx", "[", "0", "]", ".", "params", ".", "drive">>), I(3)>>,
     <<(<<"fx", "[", "1", "]", ".", "params", ".", "drive">>), F(2700)>>,
     <<(<<"fx", "[", "1", "]", ".", "params", ".", "hold_samples">>), F(2700)>>,
     <<(<<"fx_by_type", ".", "bitcrush", ".", "params", ".", "steps">>), S(<<"4">>)>>,
     <<(<<"fx", "[", "0", "]", ".", "enabled">>), I(0)>>,
     <<(<<"global", ".", "normalize">>), I(3)>>,
     <<(<<"layers", "[", "0", "]", ".", "amp">>), S(<<"2", ".", "5">>)>>,
     <<(<<"layers_by_id", ".", "main", ".", "env", ".", "decay">>), I(1)>>}

\* the specs whose layers and effects the order of the pipeline shows on
Lowpass(cutoff) ==
    [type |-> Str("lp1"), cutoff |-> F(cutoff), q |-> None, cutoff_end |-> None, curve |-> None]

TapLayer(id) ==
    [LayerDoc(id, "impulse", F(900)) EXCEPT
        !.impulse = [kind |-> Str("tap"), width |-> F(5), tone_freq |-> None]]

\* a square wave under a tremolo, panned, through two lowpass filters
WobbleLayer(id) ==
    [LoudLayer(id, F(440000), F(800)) EXCEPT
        !.pan = F(500), !.env = EnvDoc(5, 20, "lin"),
        !.mod = [tremolo_hz |-> F(30000), tremolo_depth |-> F(800),
                 pitch_lfo_hz |-> F(5000), pitch_lfo_depth |-> F(50)],
        !.filter = <<Lowpass(2000000), Lowpass(500000)>>]

PinkLayer(id) == [NoiseLayer(id) EXCEPT !.noise.color = Str("pink"), !.mod = None]

PipelineDocs ==
    {RenderDoc(22050, F(30), 42,
               <<TapLayer(<<"tap">>), OscLayer(<<"main">>, F(440000)), NoiseLayer(<<"hiss">>)>>,
               <<Softclip(F(3000)), ShortDelay>>),
     RenderDoc(22050, F(30), 7,
               <<WobbleLayer(<<"main">>), NoiseLayer(<<"hiss">>)>>,
               <<Bitcrush, Softclip(F(2000))>>),
     Normalizing(RenderDoc(22050, F(30), 42,
                           <<PinkLayer(<<"pink">>), TapLayer(<<"tap">>), ChirpLayer(<<"main">>),
                             NoiseLayer(<<"hiss">>)>>,
                           <<>>)),
     RenderDoc(22050, F(31), 123,
               <<ImpulseLayer(<<"click">>, None), FMLayer(<<"main">>), PinkLayer(<<"pink">>)>>,
               <<ShortDelay, Softclip(F(1500))>>)}

\* the switches and controls moved before a render: path and value
PipelineUpdates ==
    {<<(<<"fx", "[", "0", "]", ".", "enabled">>), I(0)>>,
     <<(<<"fx", "[", "1", "]", ".", "enabled">>), B(FALSE)>>,
     <<(<<"global", ".", "normalize">>), B(TRUE)>>,
     <<(<<"global", ".", "amp">>), F(500)>>,
     <<(<<"layers", "[", "0", "]", ".", "pan">>), F(-1000)>>,
     <<(<<"layers", "[", "1", "]", ".", "mod", ".", "pitch_lfo_depth">>), F(100)>>,
     <<(<<"layers", "[", "0", "]", ".", "mod", ".", "tremolo_depth">>), F(400)>>}

(***************************************************************************)
(* presets.py and llm.py: the built-in specs, the fallback generator and   *)
(* the generation from a prompt.  A prompt is the sequence of its words    *)
(* (a phrase the code looks for, such as "pure tone", is one word); the    *)
(* reply of the text-generation client is a nondeterministic input.        *)
(***************************************************************************)
\* a layer document as the built-in specs write it: pan and phase given
BuiltinLayer(id, type, amp, env, payload) ==
    [LayerDoc(id, type, F(amp)) EXCEPT !.pan = F(0), !.env = env, ![type] = payload]

SliderDoc(id, label, min, max, step, default, path) ==
    [id |-> S(id), label |-> Str(label), kind |-> Str("slider"), path |-> S(path),
     min |-> F(min), max |-> F(max), step |-> F(step), default |-> F(default),
     options |-> None]

BuiltinDoc(name, description, duration, seed, amp, layers, fx, params) ==
    [version |-> Str("soundspec-1"), name |-> Str(name), description |-> Str(description),
     sample_rate |-> I(44100), duration |-> F(duration), seed |-> I(seed),
     global |-> [amp |-> F(amp), normalize |-> B(TRUE)],
     layers |-> layers, fx_chain |-> fx, params |-> params]

\* the path without the block of the field: "layers_by_id.<id>.<field>"
ByIdPathOf_blockless(id, block, field) == <<"layers_by_id", ".">> \o id \o <<".", field>>

\* "layers_by_id.<id>.<block>.<field>"
ByIdPathOf(id, block, field) == <<"layers_by_id", ".">> \o id \o <<".", block, ".", field>>

\* a model_validate call as the caller sees it: the spec, or ValidationError
Built(r) == [exc |-> ~r.ok, spec |-> r.spec]

PickupDoc ==
    BuiltinDoc("gentle_pickup", "Gentle sparkly diamond pickup with soft rising tone",
               800, 42, 700,
               <<[BuiltinLayer(<<"main">>, "osc", 800, EnvDoc(50, 600, "exp"),
                               [OscDoc("sine", F(800000)) EXCEPT
                                  !.harmonics = <<[mul |-> F(2000), amp |-> F(300)],
                                                  [mul |-> F(3000), amp |-> F(150)]>>])
                    EXCEPT !.mod = [tremolo_hz |-> F(8000), tremolo_depth |-> F(200),
                                    pitch_lfo_hz |-> F(0), pitch_lfo_depth |-> F(0)]],
                 BuiltinLayer(<<"sparkle">>, "osc", 400, EnvDoc(20, 400, "exp"),
                              [OscDoc("sine", F(2400000)) EXCEPT !.detune = F(5000)])>>,
               <<>>,
               <<SliderDoc(<<"main_freq">>, "Main Frequency", 400000, 1200000, 10000, 800000,
                           ByIdPathOf(<<"main">>, "osc", "freq")),
                 SliderDoc(<<"sparkle_freq">>, "Sparkle Frequency", 1800000, 3600000, 50000,
                           2400000, ByIdPathOf(<<"sparkle">>, "osc", "freq")),
                 SliderDoc(<<"tremolo_rate">>, "Tremolo Rate", 0, 20000, 500, 8000,
                           ByIdPathOf(<<"main">>, "mod", "tremolo_hz")),
                 SliderDoc(<<"duration">>, "Duration", 300, 2000, 100, 800, <<"duration">>)>>)

get_default_pickup == Built(model_validate(PickupDoc))

ClickDoc ==
    BuiltinDoc("ui_click", "Clean UI button click", 80, 100, 600,
               <<BuiltinLayer(<<"click">>, "impulse", 800, EnvDoc(1, 50, "exp"),
                              [kind |-> Str("click"), width |-> F(2), tone_freq |-> None]),
                 BuiltinLayer(<<"tone">>, "osc", 500, EnvDoc(1, 40, "exp"),
                              OscDoc("sine", F(1200000)))>>,
               <<>>,
               <<SliderDoc(<<"tone_freq">>, "Tone Frequency", 800000, 2000000, 50000, 1200000,
                           ByIdPathOf(<<"tone">>, "osc", "freq"))>>)

get_ui_click == Built(model_validate(ClickDoc))

LaserDoc ==
    BuiltinDoc("laser_blast", "Descending laser blast", 400, 42, 800,
               <<BuiltinLayer(<<"main">>, "chirp", 900, EnvDoc(10, 300, "exp"),
                              [ChirpDoc EXCEPT !.f_start = F(1200000)])>>,
               <<Softclip(F(1500))>>,
               <<SliderDoc(<<"start_freq">>, "Start Frequency", 800000, 2000000, 10000,
                           1200000, ByIdPathOf(<<"main">>, "chirp", "f_start")),
                 SliderDoc(<<"end_freq">>, "End Frequency", 100000, 500000, 10000, 200000,
                           ByIdPathOf(<<"main">>, "chirp", "f_end")),
                 SliderDoc(<<"duration">>, "Duration", 100, 1000, 50, 400, <<"duration">>)>>)

_create_laser_spec == Built(model_validate(LaserDoc))

SweptNoise(start, end) ==
    [color |-> Str("white"), cutoff_start |-> F(start), cutoff_end |-> F(end),
     cutoff_curve |-> Str("exponential")]

ExplosionDoc ==
    BuiltinDoc("explosion", "Explosion with rumble", 1200, 123, 850,
               <<[BuiltinLayer(<<"rumble">>, "osc", 600, EnvDoc(10, 800, "exp"),
                               OscDoc("sine", F(60000)))
                    EXCEPT !.filter = <<[type |-> Str("biquad_lp"), cutoff |-> F(800000),
                                         cutoff_end |-> F(100000),
                                         curve |-> Str("exponential"), q |-> F(707)]>>],
                 BuiltinLayer(<<"crack">>, "noise", 800, EnvDoc(1, 150, "exp"),
                              SweptNoise(8000000, 2000000))>>,
               <<>>,
               <<SliderDoc(<<"rumble_freq">>, "Rumble Frequency", 40000, 120000, 5000, 60000,
                           ByIdPathOf(<<"rumble">>, "osc", "freq")),
                 SliderDoc(<<"crack_amp">>, "Crack Intensity", 0, 1000, 50, 800,
                           <<"layers_by_id", ".", "crack", ".", "amp">>)>>)

_create_explosion_spec == Built(model_validate(ExplosionDoc))

MetalPing(width, tone) ==
    [kind |-> Str("metal_ping"), width |-> F(width), tone_freq |-> F(tone)]

ShieldDoc ==
    BuiltinDoc("shield_deflect", "Shield deflection with ring", 600, 789, 750,
               <<BuiltinLayer(<<"ping">>, "impulse", 700, EnvDoc(1, 300, "exp"),
                              MetalPing(5, 1800000)),
                 BuiltinLayer(<<"shimmer">>, "fm", 500, EnvDoc(50, 400, "exp"),
                              [carrier_freq |-> F(2400000), mod_freq |-> F(7000),
                               index |-> F(3000), waveform |-> Str("sine"),
                               brightness |-> F(600)])>>,
               <<>>,
               <<SliderDoc(<<"ping_freq">>, "Ping Frequency", 1000000, 3000000, 100000,
                           1800000, ByIdPathOf(<<"ping">>, "impulse", "tone_freq")),
                 SliderDoc(<<"shimmer_brightness">>, "Shimmer Brightness", 0, 1000, 50, 600,
                           ByIdPathOf(<<"shimmer">>, "fm", "brightness"))>>)

_create_shield_spec == Built(model_validate(ShieldDoc))

\* str.lower(), on the words the prompts are written with
LowerWord(w) ==
    CASE w = "Laser" -> "laser"
      [] w = "BOOM" -> "boom"
      [] w = "Shield" -> "shield"
      [] w = "Pure Tone" -> "pure tone"
      [] OTHER -> w

lower(prompt) == [i \in DOMAIN prompt |-> LowerWord(prompt[i])]

\* any(keyword in prompt_lower for keyword in keywords)
AnyIn(keywords, prompt_lower) == \E i \in DOMAIN prompt_lower : prompt_lower[i] \in keywords

\* the fallback is keyed on the prompt alone; style is not read
_mock_generator(prompt, style) ==
    IF AnyIn({"laser"}, lower(prompt)) THEN _create_laser_spec
    ELSE IF AnyIn({"explosion", "boom"}, lower(prompt)) THEN _create_explosion_spec
    ELSE IF AnyIn({"shield", "deflect"}, lower(prompt)) THEN _create_shield_spec
    ELSE get_default_pickup

_is_pure_tone_prompt(prompt) ==
    AnyIn({"pure tone", "single tone", "test tone", "single beep", "calibration tone"},
          lower(prompt))

\* the indices _unique_id may append: 2, 3, ...
Suffixes == {c \in Digits : DigitVal(c) >= 2}

\* f"{base}_{index}" for the first index from 2 on that is not taken
FirstFree(existing_ids, base) ==
    LET free == {c \in Suffixes : S(base \o <<"_", c>>) \notin existing_ids}
    IN  base \o <<"_", CHOOSE c \in free : \A e \in free : DigitVal(c) <= DigitVal(e)>>

_unique_id(existing_ids, base) ==
    IF S(base) \notin existing_ids THEN base ELSE FirstFree(existing_ids, base)

\* the layer and the param one branch of _ensure_rich_layers appends
Extra(layer_id, type, amp, env, payload, param_id, label, min, max, step, default, field) ==
    [layer |-> BuiltinLayer(layer_id, type, amp, env, payload),
     param |-> SliderDoc(param_id, label, min, max, step, default,
                         ByIdPathOf(layer_id, type, field))]

\* the branch taken for the prompt, with the ids made unique
ExtraFor(prompt_lower, layer_ids, param_ids) ==
    IF AnyIn({"laser"}, prompt_lower)
    THEN Extra(_unique_id(layer_ids, <<"laser_chirp">>), "chirp", 600, EnvDoc(5, 250, "exp"),
               [ChirpDoc EXCEPT !.f_start = F(1600000), !.f_end = F(280000)],
               _unique_id(param_ids, <<"laser_start_freq">>), "Laser Start Frequency",
               800000, 2400000, 20000, 1600000, "f_start")
    ELSE IF AnyIn({"explosion", "boom", "blast"}, prompt_lower)
    THEN Extra(_unique_id(layer_ids, <<"blast_noise">>), "noise", 700, EnvDoc(0, 600, "exp"),
               SweptNoise(6000000, 900000),
               _unique_id(param_ids, <<"blast_cutoff">>), "Blast Cutoff",
               500000, 12000000, 100000, 6000000, "cutoff_start")
    ELSE IF AnyIn({"pickup", "collect", "sparkle", "diamond"}, prompt_lower)
    THEN Extra(_unique_id(layer_ids, <<"sparkle_ping">>), "impulse", 500,
               EnvDoc(1, 200, "exp"), MetalPing(4, 1900000),
               _unique_id(param_ids, <<"sparkle_freq">>), "Sparkle Frequency",
               1000000, 3200000, 50000, 1900000, "tone_freq")
    ELSE IF AnyIn({"shield", "deflect", "plink"}, prompt_lower)
    THEN Extra(_unique_id(layer_ids, <<"deflect_ping">>), "impulse", 550,
               EnvDoc(1, 250, "exp"), MetalPing(5, 1600000),
               _unique_id(param_ids, <<"deflect_freq">>), "Deflect Frequency",
               800000, 2600000, 50000, 1600000, "tone_freq")
    ELSE Extra(_unique_id(layer_ids, <<"air_bed">>), "noise", 250, EnvDoc(10, 300, "exp"),
               SweptNoise(9000000, 4000000),
               _unique_id(param_ids, <<"air_cutoff">>), "Air Cutoff",
               2000000, 14000000, 250000, 9000000, "cutoff_start")

\* spec_dict with the extra layer and param appended
Extended(spec_dict, extra) ==
    [spec_dict EXCEPT !.layers = Append(@, extra.layer), !.params = Append(@, extra.param)]

\* _ensure_rich_layers from the dump on
Enriched(spec_dict, prompt) ==
    Built(model_validate(
        Extended(spec_dict,
                 ExtraFor(lower(prompt),
                          {spec_dict.layers[i].id : i \in DOMAIN spec_dict.layers},
                          {spec_dict.params[i].id : i \in DOMAIN spec_dict.params}))))

_ensure_rich_layers(s, prompt) ==
    IF Len(s.layers) >= 2 \/ _is_pure_tone_prompt(prompt) THEN [exc |-> FALSE, spec |-> s]
    ELSE Enriched(model_dump(s, TRUE), prompt)

\* a line of the reply: text, or the text of a JSON document
TextLine(text) == [line |-> "text", text |-> text]

JsonLine(doc) == [line |-> "json", doc |-> doc]

\* content.startswith of the three backquotes of a markdown code block, written
\* <fence> here
IsFence(item) == item.line = "text" /\ item.text \in {"<fence>", "<fence>json"}

\* lines[1:-1] if len(lines) > 2 else content
Unfenced(content) ==
    IF Len(content) > 2 THEN SubSeq(content, 2, Len(content) - 1) ELSE content

\* if content.startswith('json'): content = content[4:].strip()
Unlabelled(content) ==
    IF content # <<>> /\ content[1] = TextLine("json") THEN Tail(content) ELSE content

\* the reply without its markdown code block
Stripped(content) ==
    IF content # <<>> /\ IsFence(content[1]) THEN Unlabelled(Unfenced(content)) ELSE content

\* json.loads(content): the document, or JSONDecodeError
json_loads(content) ==
    IF Len(content) = 1 /\ content[1].line = "json"
    THEN [exc |-> FALSE, val |-> content[1].doc]
    ELSE [exc |-> TRUE, val |-> None]

\* spec = SoundSpec.model_validate(spec_dict); return _ensure_rich_layers(spec, prompt)
Accepted(r, prompt) ==
    IF r.ok THEN _ensure_rich_layers(r.spec, prompt) ELSE [exc |-> TRUE, spec |-> NoSpec]

Parsed(loaded, prompt) ==
    IF loaded.exc THEN [exc |-> TRUE, spec |-> NoSpec]
    ELSE Accepted(model_validate(loaded.val), prompt)

\* the try block of generate_soundspec: the client raises, or replies
generate_try(prompt, style, reply) ==
    IF reply.raises THEN [exc |-> TRUE, spec |-> NoSpec]
    ELSE Parsed(json_loads(Stripped(reply.content)), prompt)

\* generate_soundspec that lets the exception of the try block through
generate_soundspec_unguarded(api_key, prompt, style, reply) ==
    IF ~api_key THEN _mock_generator(prompt, style)
    ELSE generate_try(prompt, style, reply)

\* if not api_key: return _mock_generator(prompt, style)
\* try: ... except Exception: return _mock_generator(prompt, style)
generate_soundspec(api_key, prompt, style, reply) ==
    IF ~api_key \/ generate_try(prompt, style, reply).exc THEN _mock_generator(prompt, style)
    ELSE generate_try(prompt, style, reply)

get_all_presets == [gentle_pickup |-> get_default_pickup, ui_click |-> get_ui_click]

(***************************************************************************)
(* The prompts and the replies the generation is tried on                  *)
(***************************************************************************)
Prompts ==
    {<<"Laser", "zap">>, <<"BOOM">>, <<"explosion">>, <<"blast">>, <<"Shield">>,
     <<"deflect">>, <<"plink">>, <<"diamond", "pickup">>, <<"wind">>, <<"Pure Tone">>}

Styles == {None, Str("laser")}

\* a param document with a default, as a generated document carries it
DefaultedParam(id, path, default) ==
    [ParamDoc("p", path) EXCEPT !.id = S(id), !.default = default]

\* max_length of params many param documents with distinct ids
FullParams ==
    [i \in 1..24 |-> DefaultedParam(<<"p", CHOOSE c \in Digits : DigitVal(c) = i \div 10,
                                          CHOOSE c \in Digits : DigitVal(c) = i % 10>>,
                                    <<"duration">>, F(500))]

ReplyDoc(layers, params) ==
    [version |-> Str("soundspec-1"), name |-> Str("generated"), description |-> Str("generated"),
     sample_rate |-> I(44100), duration |-> F(500), seed |-> I(7),
     global |-> [amp |-> F(800), normalize |-> B(TRUE)],
     layers |-> layers, fx_chain |-> <<>>, params |-> params]

OneLayer == <<OscLayer(<<"main">>, F(440000))>>

\* one layer and a param that addresses it
ThinDoc ==
    ReplyDoc(OneLayer, <<DefaultedParam(<<"freq">>, ByIdPathOf(<<"main">>, "osc", "freq"),
                                        F(440000))>>)

\* one layer and a param whose path names no layer of the document
StrayDoc ==
    ReplyDoc(OneLayer, <<DefaultedParam(<<"level">>,
                                        <<"layers_by_id", ".", "lead", ".", "amp">>, F(500))>>)

\* one layer, with the ids the extra layer and param would take
TakenDoc ==
    ReplyDoc(<<ChirpLayer(<<"laser_chirp">>)>>,
             <<DefaultedParam(<<"laser_start_freq">>,
                              ByIdPathOf(<<"laser_chirp">>, "chirp", "f_start"), F(900000)),
               DefaultedParam(<<"laser_start_freq", "_", "2">>,
                              ByIdPathOf(<<"laser_chirp">>, "chirp", "f_end"), F(300000))>>)

ReplyDocs ==
    {ThinDoc, StrayDoc, TakenDoc,
     ReplyDoc(OneLayer, FullParams),
     ReplyDoc(<<OscLayer(<<"main">>, F(440000)), NoiseLayer(<<"hiss">>)>>, <<>>),
     ReplyDoc(<<LayerDoc(<<"main">>, "osc", F(700))>>, <<>>)}

Contents ==
    {<<JsonLine(d)>> : d \in ReplyDocs}
      \cup {<<TextLine("<fence>json"), JsonLine(d), TextLine("<fence>")>> : d \in {ThinDoc, StrayDoc}}
      \cup {<<TextLine("<fence>"), TextLine("json"), JsonLine(ThinDoc), TextLine("<fence>")>>,
            <<TextLine("<fence>"), JsonLine(ThinDoc)>>,
            <<TextLine("Here is your sound"), JsonLine(ThinDoc)>>,
            <<TextLine("not json")>>,
            <<>>}

Replies ==
    {[raises |-> TRUE, content |-> <<>>]} \cup {[raises |-> FALSE, content |-> c] : c \in Contents}

(***************************************************************************)
(* Operations                                                              *)
(***************************************************************************)
\* spec = SoundSpec.model_validate(doc), for the document at hand
Construct ==
    /\ call.op = "document"
    /\ LET r == model_validate(call.doc)
       IN  /\ spec' = r.spec
           /\ call' = [op |-> "validate", doc |-> call.doc, ok |-> r.ok, errors |-> r.errors]
    /\ UNCHANGED <<out, updates, renders>>

\* the call returns r: the spec is as the call left it
Returned(path, value, r) ==
    /\ spec' = r.obj
    /\ call' = [op |-> "update", path |-> path, value |-> value,
                exc |-> r.exc, ret |-> r.ret, before |-> spec]

\* update_spec_from_param(spec, path, value)
Update(path, value) ==
    /\ spec # NoSpec
    /\ updates < MaxUpdates
    /\ Returned(path, value, update_spec_from_param(spec, path, value))
    /\ updates' = updates + 1
    /\ UNCHANGED <<out, renders>>

Resolve == \E path \in Paths, value \in Values : Update(path, value)

\* the export of the spec, loaded again:
\* SoundSpec.model_validate(spec.model_dump(by_alias=True))
Reloaded(doc, r) ==
    /\ spec' = r.spec
    /\ call' = [op |-> "reload", doc |-> doc, ok |-> r.ok, errors |-> r.errors,
                before |-> spec]

Reload ==
    /\ call.op = "validate"
    /\ call.ok
    /\ Reloaded(model_dump(spec, TRUE), model_validate(model_dump(spec, TRUE)))
    /\ UNCHANGED <<out, updates, renders>>

InitValidate ==
    /\ spec = NoSpec
    /\ call \in {[op |-> "document", doc |-> d] : d \in Docs}
    /\ out = NoOut
    /\ updates = 0
    /\ renders = 0

Init ==
    /\ spec \in Validated(PathDocs)
    /\ call = NoCall
    /\ out = NoOut
    /\ updates = 0
    /\ renders = 0

Next == Resolve

\* the path resolver, from the validated specs of the test suite
Spec == Init /\ [][Next]_vars

\* update_spec_from_param on a field of a block of a layer
Assign == \E path \in FieldPaths, value \in Values : Update(path, value)

NextFields == Assign

\* the resolver on the blocks of the layers
SpecFields == Init /\ [][NextFields]_vars

NextValidate == Construct \/ Reload

\* construction of a SoundSpec from a document
SpecValidate == InitValidate /\ [][NextValidate]_vars

\* samples = render_samples(spec)
Render ==
    /\ spec # NoSpec
    /\ renders < MaxRenders
    /\ out' = render_samples(spec)
    /\ call' = [op |-> "render", before |-> spec, last |-> out, prior |-> call.op]
    /\ renders' = renders + 1
    /\ UNCHANGED <<spec, updates>>

\* data = render_wav_bytes(spec)
RenderWav ==
    /\ spec # NoSpec
    /\ renders < MaxRenders
    /\ out' = render_wav_bytes(spec)
    /\ call' = [op |-> "wav", before |-> spec, last |-> out, prior |-> call.op]
    /\ renders' = renders + 1
    /\ UNCHANGED <<spec, updates>>

Tune == \E u \in RenderUpdates : Update(u[1], u[2])

InitRender ==
    /\ spec \in Validated(RenderDocs)
    /\ call = NoCall
    /\ out = NoOut
    /\ updates = 0
    /\ renders = 0

NextRender == Tune \/ Render \/ RenderWav

\* rendering, and moving a control between renders
SpecRender == InitRender /\ [][NextRender]_vars

Switch == \E u \in PipelineUpdates : Update(u[1], u[2])

InitPipeline ==
    /\ spec \in Validated(PipelineDocs)
    /\ call = NoCall
    /\ out = NoOut
    /\ updates = 0
    /\ renders = 0

NextPipeline == Switch \/ Render

\* rendering specs of several layers and effects, with effects switched off
SpecPipeline == InitPipeline /\ [][NextPipeline]_vars

\* the spec validated from the reply, before _ensure_rich_layers
Received(reply) == model_validate(json_loads(Stripped(reply.content)).val).spec

\* how generate_soundspec came to the spec it returns
SourceOf(api_key, prompt, style, reply) ==
    IF ~api_key \/ generate_try(prompt, style, reply).exc THEN "fallback"
    ELSE IF Len(Received(reply).layers) >= 2 \/ _is_pure_tone_prompt(prompt) THEN "reply"
    ELSE "extended"

Generated(r, source) ==
    /\ spec' = r.spec
    /\ call' = [op |-> "generate", api_key |-> call.api_key, prompt |-> call.prompt,
                style |-> call.style, reply |-> call.reply, exc |-> r.exc,
                source |-> source]

\* spec = generate_soundspec(prompt, style), OPENAI_API_KEY set or not
Generate ==
    /\ call.op = "prompt"
    /\ Generated(generate_soundspec(call.api_key, call.prompt, call.style, call.reply),
                 SourceOf(call.api_key, call.prompt, call.style, call.reply))
    /\ UNCHANGED <<out, updates, renders>>

\* spec = get_all_presets()[name]
LoadPreset ==
    /\ call.op = "choice"
    /\ spec' = get_all_presets[call.name].spec
    /\ call' = [op |-> "generate", exc |-> get_all_presets[call.name].exc,
                source |-> "preset"]
    /\ UNCHANGED <<out, updates, renders>>

Turned(i, r) ==
    /\ spec' = r.obj
    /\ call' = [op |-> "param", index |-> i, exc |-> r.exc, ret |-> r.ret,
                before |-> spec, source |-> call.source]

\* the control of param i at its default:
\* update_spec_from_param(spec, param.path, param.default)
ApplyParam ==
    /\ call.op = "generate"
    /\ ~call.exc
    /\ updates < MaxUpdates
    /\ \E i \in DOMAIN spec.params :
          Turned(i, update_spec_from_param(spec, spec.params[i].path.v,
                                           spec.params[i].default))
    /\ updates' = updates + 1
    /\ UNCHANGED <<out, renders>>

InitGenerate ==
    /\ spec = NoSpec
    /\ call \in {[op |-> "prompt", api_key |-> k, prompt |-> p, style |-> s, reply |-> r] :
                    k \in BOOLEAN, p \in Prompts, s \in Styles, r \in Replies}
               \cup {[op |-> "choice", name |-> n] : n \in DOMAIN get_all_presets}
    /\ out = NoOut
    /\ updates = 0
    /\ renders = 0

NextGenerate == Generate \/ LoadPreset \/ ApplyParam

\* generation from a prompt, the presets, and the controls of the spec obtained
SpecGenerate == InitGenerate /\ [][NextGenerate]_vars

(***************************************************************************)
(* The signal functions of renderer.py, each on arguments of its own       *)
(***************************************************************************)
\* phases in millionths of a turn, inside and outside one period
Phases ==
    {0, 1, 125000, 250000, 375000, 499999, 500000, 625000, 750000, 875000, 999999,
     1000000, 1250000, 2750000, -250000}

WaveformInputs ==
    {[op |-> "input", fn |-> "generate_waveform", waveform |-> Str(w), phase |-> p] :
        w \in {"sine", "triangle", "square", "saw"}, p \in Phases}

\* a buffer of n samples between -1 and 1
Pattern(n) == [i \in 1..n |-> (((i * 37) % 201) - 100) * 10]

Steady(n) == [i \in 1..n |-> 1000]

ModulationInputs ==
    {[op |-> "input", fn |-> "apply_modulation", samples |-> x,
      mod |-> [tremolo_hz |-> F(hz), tremolo_depth |-> F(depth), pitch_lfo_hz |-> F(0),
               pitch_lfo_depth |-> F(0)]] :
        x \in {Steady(800), Pattern(800)}, hz \in {0, 500, 5000, 30000},
        depth \in {0, 300, 800}}

EnvelopeInputs ==
    {[op |-> "input", fn |-> "apply_envelope", duration |-> F(d),
      env |-> [EnvDoc(a, dec, "adsr") EXCEPT !.sustain = sus, !.release = rel]] :
        d \in {30, 150}, a \in {0, 10, 50}, dec \in {1, 20, 300},
        sus \in {None, F(800)}, rel \in {None, F(20), F(0)}}

DelayInputs ==
    {[op |-> "input", fn |-> "apply_delay", samples |-> Pattern(n), time_ms |-> F(ms),
      feedback |-> F(fb), mix |-> F(mix)] :
        n \in {0, 1, 109, 110, 111, 250, 400}, ms \in {5000, 7300}, fb \in {0, 300, 850},
        mix \in {0, 500, 700}}

\* samples from -1.5 to 1.5 in steps of 0.05
Ladder == [i \in 1..61 |-> 50 * (i - 1) - 1500]

SoftclipInputs ==
    {[op |-> "input", fn |-> "apply_softclip", samples |-> x, drive |-> F(drive)] :
        x \in {Ladder, Pattern(60)}, drive \in {0, 500, 1000, 1500, 2000, 3000, 4000}}

FmInputs ==
    {[op |-> "input", fn |-> "render_fm",
      layer |-> [FMLayer(<<"main">>) EXCEPT !.fm.brightness = F(b), !.fm.index = F(ix)]] :
        b \in {0, 500, 501, 750, 1000}, ix \in {0, 2000}}

SignalInputs ==
    WaveformInputs \cup ModulationInputs \cup EnvelopeInputs \cup DelayInputs
      \cup SoftclipInputs \cup FmInputs

\* the call of the function on the arguments, and what it gave
Called(r) ==
    /\ call.op = "input"
    /\ call' = [call EXCEPT !.op = call.fn]
    /\ out' = r
    /\ UNCHANGED <<spec, updates, renders>>

\* generate_waveform(waveform, phase)
SampleWaveform ==
    /\ call.fn = "generate_waveform"
    /\ Called(Kept(<<generate_waveform(call.waveform, call.phase)>>))

\* apply_modulation(samples, mod, sample_rate)
ApplyModulation ==
    /\ call.fn = "apply_modulation"
    /\ Called(Kept(apply_modulation(call.samples, call.mod, 22050)))

\* apply_envelope(samples, env, sample_rate, duration) on a buffer of ones
ApplyEnvelope ==
    /\ call.fn = "apply_envelope"
    /\ Called(apply_envelope(Steady(NumSamples(call.duration, 22050)), call.env, 22050,
                             call.duration))

\* apply_delay(samples, params, sample_rate)
ApplyDelay ==
    /\ call.fn = "apply_delay"
    /\ Called(apply_delay(call.samples, call.time_ms, call.feedback, call.mix, 22050))

\* apply_softclip(samples, drive)
ApplySoftclip ==
    /\ call.fn = "apply_softclip"
    /\ Called(apply_softclip(call.samples, call.drive))

\* render_fm(layer, num_samples, sample_rate, rng)
RenderFm ==
    /\ call.fn = "render_fm"
    /\ Called(Kept(render_fm(call.layer, 200, 22050, Random(42)).samples))

InitSignal ==
    /\ spec = NoSpec
    /\ call \in SignalInputs
    /\ out = NoOut
    /\ updates = 0
    /\ renders = 0

NextSignal ==
    SampleWaveform \/ ApplyModulation \/ ApplyEnvelope \/ ApplyDelay \/ ApplySoftclip \/ RenderFm

\* the signal functions on the arguments of SignalInputs
SpecSignal == InitSignal /\ [][NextSignal]_vars


(***************************************************************************)
(* Properties of the path resolver                                         *)
(***************************************************************************)
\* C1: update_spec_from_param never raises: it returns True or False, and
\* when it returns False the Spec is identical to its state before the call
C1_NeverRaisesNoPartialMutation ==
    call.op = "update" =>
        /\ ~call.exc
        /\ call.ret \in BOOLEAN
        /\ (~call.ret => spec = call.before)

\* a float field addressed with a value float() raises on: False, Spec unchanged
C1_Witness ==
    /\ call.op = "update"
    /\ call.path = <<"layers", "[", "0", "]", ".", "env", ".", "attack">>
    /\ call.value = None
    /\ ~call.ret
    /\ spec = call.before

\* the paths of the grammar that address an existing leaf of layer l
\* (section 4.3 of the specification), as suffixes after the layer
GrammarLayerFields(l) ==
    {<<"amp">>, <<"pan">>, <<"phase">>}
      \cup {<<"env", ".", f>> : f \in {"attack", "decay", "sustain", "release"}}
      \cup (IF l.mod = None THEN {}
            ELSE {<<"mod", ".", f>> :
                    f \in {"tremolo_hz", "tremolo_depth", "pitch_lfo_hz", "pitch_lfo_depth"}})
      \cup (IF l.osc = None THEN {}
            ELSE {<<"osc", ".", f>> : f \in {"freq", "detune", "waveform"}})
      \cup (IF l.chirp = None THEN {}
            ELSE {<<"chirp", ".", f>> :
                    f \in {"f_start", "f_end", "vibrato_hz", "vibrato_depth", "waveform"}})
      \cup (IF l.fm = None THEN {}
            ELSE {<<"fm", ".", f>> : f \in {"carrier_freq", "mod_freq", "index", "brightness"}})
      \cup (IF l.noise = None THEN {}
            ELSE {<<"noise", ".", f>> : f \in {"cutoff_start", "cutoff_end"}})
      \cup (IF l.impulse = None THEN {}
            ELSE {<<"impulse", ".", "width">>}
                   \cup (IF l.impulse.tone_freq = None THEN {}
                         ELSE {<<"impulse", ".", "tone_freq">>}))

GrammarFxFields ==
    {<<"enabled">>}
      \cup {<<"params", ".", f>> :
              f \in {"drive", "steps", "hold_samples", "time_ms", "feedback", "mix",
                     "target_peak"}}

\* every path of the grammar that addresses a leaf of s
GrammarPaths(s) ==
    {<<"global", ".", "amp">>, <<"global", ".", "normalize">>, <<"duration">>}
      \cup UNION {{<<"layers", "[", DigitSym(i - 1), "]", ".">> \o f :
                     f \in GrammarLayerFields(s.layers[i])} : i \in DOMAIN s.layers}
      \cup UNION {{<<"layers_by_id", ".">> \o s.layers[i].id.v \o <<".">> \o f :
                     f \in GrammarLayerFields(s.layers[i])} : i \in DOMAIN s.layers}
      \cup UNION {{<<"fx", "[", DigitSym(i - 1), "]", ".">> \o f : f \in GrammarFxFields} :
                    i \in DOMAIN s.fx_chain}
      \cup UNION {{<<"fx_by_type", ".">> \o s.fx_chain[i].type.v \o <<".">> \o f :
                     f \in GrammarFxFields} : i \in DOMAIN s.fx_chain}

\* C2: the resolver returns False and mutates nothing for every path that is
\* not an exact instance of the grammar addressing an existing leaf (unknown
\* root, no "." after an index, a path that stops before a leaf, segments
\* after a leaf, index out of range, unknown id or effect type, missing
\* optional block, field outside the whitelist)
C2_OutsideGrammarFails ==
    (call.op = "update" /\ call.path \notin GrammarPaths(call.before)) =>
        (~call.ret /\ spec = call.before)

\* the top-level fields, list elements and fields below them that differ
RecDiff(a, b) == {f \in DOMAIN a : a[f] # b[f]}

Words(q) == SelectSeq(q, IsWord)

IsPrefix(p, q) == Len(p) <= Len(q) /\ SubSeq(q, 1, Len(p)) = p

\* the word chain below the object that differs between objects a and b when
\* exactly one leaf does: <<field>> or <<block, field>>; <<>> otherwise
LeafChain(a, b, blocks) ==
    LET d == RecDiff(a, b)
    IN  IF Cardinality(d) # 1 THEN <<>>
        ELSE LET f == CHOOSE x \in d : TRUE
             IN  IF f \notin blocks THEN <<f>>
                 ELSE LET e == RecDiff(a[f], b[f])
                      IN  IF Cardinality(e) # 1 THEN <<>>
                          ELSE <<f, CHOOSE x \in e : TRUE>>

LayerBlocks == {"env", "mod", "osc", "chirp", "fm", "noise", "impulse"}

\* the leaf written between specs a and b is the one path names: the words
\* of the path start with the words of the leaf's address
OneLeafAddressed(a, b, path) ==
    LET d == RecDiff(a, b)
        w == Words(path)
    IN  \/ d = {}
        \/ d = {"duration"} /\ IsPrefix(<<"duration">>, w)
        \/ /\ d = {"global_"}
           /\ LeafChain(a.global_, b.global_, {}) # <<>>
           /\ IsPrefix(<<"global">> \o LeafChain(a.global_, b.global_, {}), w)
        \/ /\ d = {"layers"}
           /\ Len(a.layers) = Len(b.layers)
           /\ \E k \in DOMAIN a.layers :
                LET c == LeafChain(a.layers[k], b.layers[k], LayerBlocks)
                IN  /\ \A j \in DOMAIN a.layers : j # k => a.layers[j] = b.layers[j]
                    /\ c # <<>>
                    /\ \/ IsPrefix(<<"layers", DigitSym(k - 1)>> \o c, w)
                       \/ IsPrefix(<<"layers_by_id">> \o Words(a.layers[k].id.v) \o c, w)
        \/ /\ d = {"fx_chain"}
           /\ Len(a.fx_chain) = Len(b.fx_chain)
           /\ \E k \in DOMAIN a.fx_chain :
                LET c == LeafChain(a.fx_chain[k], b.fx_chain[k], {"params"})
                IN  /\ \A j \in DOMAIN a.fx_chain : j # k => a.fx_chain[j] = b.fx_chain[j]
                    /\ c # <<>>
                    /\ \/ IsPrefix(<<"fx", DigitSym(k - 1)>> \o c, w)
                       \/ IsPrefix(<<"fx_by_type">> \o a.fx_chain[k].type.v \o c, w)

\* C3: whenever the resolver returns True, at most the one leaf addressed by
\* the path differs from the Spec before the call; every other field of
\* every layer, block, effect, param descriptor and global setting is equal
C3_OnlyAddressedLeafWritten ==
    (call.op = "update" /\ call.ret) => OneLeafAddressed(call.before, spec, call.path)

\* chirp.f_start of the second layer written through its id; f_end kept
C3_Witness ==
    /\ call.op = "update"
    /\ call.ret
    /\ call.path = <<"layers_by_id", ".", "chirp", ".", "chirp", ".", "f_start">>
    /\ spec.layers[2].chirp.f_start = F(2700)
    /\ spec.layers[2].chirp.f_end = call.before.layers[2].chirp.f_end
    /\ spec # call.before

\* the by-id path for the layer and field of the index path 'layers[i].f'
ByIdPath(s, path) ==
    <<"layers_by_id", ".">> \o s.layers[DigitVal(path[3]) + 1].id.v \o SubSeq(path, 5, Len(path))

IsLayerIndexPath(s, path) ==
    /\ Len(path) > 5
    /\ SubSeq(path, 1, 2) = <<"layers", "[">>
    /\ path[3] \in Digits
    /\ DigitVal(path[3]) < Len(s.layers)
    /\ SubSeq(path, 4, 5) = <<"]", ".">>

\* C4: for every layer at index i with id d, every suffix f and every value,
\* 'layers[i].f' and 'layers_by_id.d.f' applied to equal Specs return the
\* same boolean and leave equal Specs
C4_IndexAndIdAgree ==
    (call.op = "update" /\ IsLayerIndexPath(call.before, call.path)) =>
        LET r == update_spec_from_param(call.before, ByIdPath(call.before, call.path),
                                        call.value)
        IN  r.ret = call.ret /\ r.obj = spec

(***************************************************************************)
(* Properties of the validation                                            *)
(***************************************************************************)
PayloadKeys == {"osc", "chirp", "fm", "noise", "impulse"}

Populated(l) == {k \in PayloadKeys : l[k] # None}

\* C8: every validated Layer has exactly one populated payload, the one
\* named by its type, and a layer document carrying a payload that does not
\* match its type is rejected
C8_ExactlyOnePayload ==
    call.op = "validate" =>
        /\ call.ok => \A i \in DOMAIN spec.layers :
                        Populated(spec.layers[i]) = {spec.layers[i].type.v[1]}
        /\ (\E i \in DOMAIN call.doc.layers :
                Populated(call.doc.layers[i]) \ {call.doc.layers[i].type.v[1]} # {})
             => ~call.ok

\* the five defects of the claim, read off the document
WrongVersion(d) == d.version # None /\ d.version # Str("soundspec-1")

DurationOutside(d) ==
    LET m == IF d.duration.t = "int" THEN d.duration.v * 1000 ELSE d.duration.v
    IN  m < 30 \/ m > 3000

LacksPayload(d) == \E i \in DOMAIN d.layers : d.layers[i][d.layers[i].type.v[1]] = None

SameIdTwice(d) ==
    \E i, j \in DOMAIN d.layers : i # j /\ d.layers[i].id = d.layers[j].id

OscFreqOutside(d) ==
    \E i \in DOMAIN d.layers :
        /\ d.layers[i].osc # None
        /\ LET f == d.layers[i].osc.freq
               m == IF f.t = "int" THEN f.v * 1000 ELSE f.v
           IN  m < 20000 \/ m > 20000000

\* C9: validation fails with a ValidationError and constructs nothing for a
\* document with a version other than soundspec-1, a duration outside
\* [0.03, 3.0], a layer lacking the payload its type names, two layers with
\* the same id, or an oscillator frequency outside [20, 20000]
C9_DefectiveDocumentRejected ==
    (/\ call.op = "validate"
     /\ \/ WrongVersion(call.doc)
        \/ DurationOutside(call.doc)
        \/ LacksPayload(call.doc)
        \/ SameIdTwice(call.doc)
        \/ OscFreqOutside(call.doc))
      => (~call.ok /\ call.errors # {} /\ spec = NoSpec)

\* a document whose only defect is a layer of type osc without osc payload
C9_Witness ==
    /\ call.op = "validate"
    /\ LacksPayload(call.doc)
    /\ ~WrongVersion(call.doc) /\ ~DurationOutside(call.doc)
    /\ ~SameIdTwice(call.doc) /\ ~OscFreqOutside(call.doc)
    /\ call.errors = {<<"layers", "type_params">>}
    /\ spec = NoSpec

(***************************************************************************)
(* Properties of the engine                                                *)
(***************************************************************************)
\* the leaf of layer l or effect f that the words r after it address
LayerLeaf(l, r) == IF Len(r) = 1 THEN l[r[1]] ELSE l[r[1]][r[2]]

FxLeaf(f, r) == IF r[1] = "enabled" THEN f.enabled ELSE f.params[r[2]]

\* the leaf of s that the words w of a path address
LeafOf(s, w) ==
    LET HasId(l) == l.id = S(<<w[2]>>)
        HasType(f) == f.type.v = <<w[2]>>
        rest == SubSeq(w, 3, Len(w))
    IN  CASE w[1] = "global" -> s.global_[w[2]]
          [] w[1] = "duration" -> s.duration
          [] w[1] = "layers" -> LayerLeaf(s.layers[DigitVal(w[2]) + 1], rest)
          [] w[1] = "layers_by_id" -> LayerLeaf(s.layers[FirstIndex(s.layers, HasId)], rest)
          [] w[1] = "fx" -> FxLeaf(s.fx_chain[DigitVal(w[2]) + 1], rest)
          [] w[1] = "fx_by_type" -> FxLeaf(s.fx_chain[FirstIndex(s.fx_chain, HasType)], rest)

\* the value v as the primitive type of the field named leaf holds it
CoercedFor(leaf, v) ==
    IF leaf \in {"steps", "hold_samples"} THEN PyInt(v).val
    ELSE IF leaf \in {"normalize", "enabled"} THEN PyBool(v).val
    ELSE PyFloat(v).val

\* the spec with no effect in its chain
Dry(s) == [s EXCEPT !.fx_chain = <<>>]

\* the buffer dry scaled by drive and clipped, sample by sample
Driven(dry, drive) == [k \in 1..Len(dry) |-> softclip(Mul(dry[k], drive))]

\* the chain of s is one enabled softclip, and nothing follows it
OnlySoftclip(s) ==
    /\ Len(s.fx_chain) = 1
    /\ s.fx_chain[1].type = Str("softclip")
    /\ s.fx_chain[1].enabled = B(TRUE)
    /\ s.fx_chain[1].params.drive # None
    /\ s.global_.normalize = B(FALSE)

\* C5: after update_spec_from_param returned True the addressed leaf holds
\* the value coerced to the primitive type of the field, and the next render
\* is computed from the value the spec holds now: through a softclip it is
\* the dry mix scaled by the drive of the moment, nothing kept from before
C5_RenderReflectsUpdate ==
    /\ (call.op = "update" /\ call.ret) =>
          LeafOf(spec, Words(call.path))
            = CoercedFor(call.path[Len(call.path)], call.value)
    /\ (call.op = "render" /\ OnlySoftclip(spec) /\ ~out.exc) =>
          out.samples = Driven(render_samples(Dry(spec)).samples,
                               spec.fx_chain[1].params.drive.v)

\* rendered with drive 2.0, drive set to 3 through fx[0].params.drive,
\* rendered again: the leaf is the float 3.0 and the samples are others
C5_Witness ==
    /\ call.op = "render"
    /\ call.prior = "update"
    /\ renders = 2
    /\ OnlySoftclip(spec)
    /\ spec.fx_chain[1].params.drive = F(3000)
    /\ spec.seed = I(42)
    /\ ~out.exc
    /\ out # call.last
    /\ out.samples # <<>>

C7_RenderNeverRaises ==
    (call.op \in {"render", "wav"} /\ updates = 0) => ~out.exc

\* C10 as stated: the buffer has round(duration * sample_rate) samples
C10_RoundedLength ==
    (call.op = "render" /\ updates = 0 /\ ~out.exc) =>
        Len(out.samples) = round(spec.duration.v * spec.sample_rate.v, 1000)

\* C10: render_samples returns int(duration * sample_rate) samples, the
\* product truncated toward zero, for every validated duration and rate
C10_TruncatedLength ==
    (call.op = "render" /\ updates = 0 /\ ~out.exc) =>
        Len(out.samples) = Trunc(spec.duration.v * spec.sample_rate.v, 1000)

\* 0.031 s at 22050 Hz is 683.55 samples: 683 are returned
C10_Witness ==
    /\ call.op = "render"
    /\ updates = 0
    /\ ~out.exc
    /\ spec.duration = F(31)
    /\ spec.sample_rate = I(22050)
    /\ Len(out.samples) = 683

(***************************************************************************)
(* Properties of the rendered buffer                                       *)
(***************************************************************************)
\* max(abs(s) for s in samples), of the buffer a render returned
PeakOf(r) == Peak(r.samples, 1, Len(r.samples))

\* C11: every sample render_samples returns for a validated spec lies in
\* [-1, 1], whatever the layers, their amps and the global amp
C11_SamplesInRange ==
    (call.op = "render" /\ updates = 0 /\ ~out.exc) => PeakOf(out) <= 1000

\* the spec with the global normalize switched off: what it renders is the
\* buffer after the effects chain
Unnormalized(s) == [s EXCEPT !.global_.normalize = B(FALSE)]

PeakExact(pre, r) == IF PeakOf(pre) > 0 THEN PeakOf(r) = 950 ELSE r = pre

\* C12 as stated: with normalize set the returned peak is 0.95 exactly, and
\* a silent buffer is returned unchanged
C12_NormalizedPeakExact ==
    (call.op = "render" /\ spec.global_.normalize.v /\ ~out.exc) =>
        PeakExact(render_samples(Unnormalized(spec)), out)

\* gain = 0.95 / peak and s * gain are each rounded: the peak comes out
\* within one unit of the last place of 0.95
PeakRounded(pre, r) ==
    IF PeakOf(pre) > 0 THEN Abs(PeakOf(r) - 950) <= 1 ELSE r = pre

\* C12: with normalize set and a non-zero peak after the effects chain the
\* returned peak is 0.95 up to the rounding of the gain and of the product;
\* a silent buffer is returned unchanged, without error
C12_NormalizedPeak ==
    (call.op = "render" /\ spec.global_.normalize.v /\ ~out.exc) =>
        PeakRounded(render_samples(Unnormalized(spec)), out)

\* two square layers of amp 1.0 and 0.7 at global amp 0.8 peak at 1.36:
\* normalized, the peak is one unit above 0.95
C12_Witness ==
    /\ call.op = "render"
    /\ spec.global_.normalize.v
    /\ ~out.exc
    /\ Len(spec.layers) = 2
    /\ spec.layers[1].amp = F(1000)
    /\ spec.layers[2].amp = F(700)
    /\ PeakOf(out) = 951

\* the spec of the same document with another seed
Reseeded(s, seed) == [s EXCEPT !.seed = I(seed)]

\* the seeds a spec is rendered against: those of the test suite
OtherSeeds == {999, 123}

NoiseLayers(s) == {k \in 1..Len(s.layers) : s.layers[k].type = Str("noise")}

SeedShows(s, r) ==
    \A seed \in OtherSeeds \ {s.seed.v} : render_samples(Reseeded(s, seed)) # r

Audible(s) ==
    /\ s.global_.amp.v > 0
    /\ \A k \in NoiseLayers(s) : s.layers[k].amp.v > 0
    /\ \A k \in 1..Len(s.fx_chain) : ~s.fx_chain[k].enabled.v

EveryAttackPositive(s) == \A k \in 1..Len(s.layers) : s.layers[k].env.attack.v > 0

\* C14: when every layer's envelope has attack > 0, sample 0 of the render
\* is 0, whatever the layers, the global amp, the effects and normalize
C14_FirstSampleZero ==
    (call.op = "render" /\ ~out.exc /\ EveryAttackPositive(spec)) => out.samples[1] = 0

\* an fm layer and a noise layer, both with attack 0.01, through bitcrush
\* and softclip: the buffer is not silent and starts at 0
C14_Witness ==
    /\ call.op = "render"
    /\ ~out.exc
    /\ EveryAttackPositive(spec)
    /\ Len(spec.layers) = 2
    /\ spec.layers[2].type = Str("noise")
    /\ Len(spec.fx_chain) = 2
    /\ spec.fx_chain[1].enabled.v
    /\ PeakOf(out) > 0
    /\ out.samples[1] = 0

(***************************************************************************)
(* Properties of the serialization                                         *)
(***************************************************************************)
\* C15: the document a validated spec serializes to, the global settings
\* under the key "global", validates and yields a spec equal to the first
C15_RoundTrip ==
    call.op = "reload" =>
        /\ "global" \in DOMAIN call.doc
        /\ "global_" \notin DOMAIN call.doc
        /\ call.ok
        /\ spec = call.before

\* a spec of two layers whose pan, modulation and payload defaults were
\* filled in by the validation, exported and loaded again
C15_Witness ==
    /\ call.op = "reload"
    /\ call.ok
    /\ Len(spec.layers) = 2
    /\ spec.layers[1].pan = F(0)
    /\ spec.layers[2].type = Str("noise")
    /\ call.doc.global = spec.global_
    /\ spec = call.before

(***************************************************************************)
(* Properties of the spec under path edits                                 *)
(***************************************************************************)
\* what of a layer no setter may change: its id, its type, whether it has a
\* modulation, how many filters, which payloads
LayerShape(l) ==
    [id |-> l.id, type |-> l.type, mod |-> l.mod # None, filter |-> Len(l.filter),
     payloads |-> Populated(l)]

\* the structure of a spec: the lengths of its collections and the shape of
\* every layer and effect
Shape(s) ==
    [layers |-> [i \in DOMAIN s.layers |-> LayerShape(s.layers[i])],
     fx_chain |-> [i \in DOMAIN s.fx_chain |-> s.fx_chain[i].type],
     params |-> Len(s.params)]

WellFormed(s) ==
    /\ ~HasDuplicates([i \in DOMAIN s.layers |-> s.layers[i].id])
    /\ \A i \in DOMAIN s.layers : s.layers[i].type.v[1] \in Populated(s.layers[i])

\* C16: a call of update_spec_from_param, whatever it returns, leaves the
\* numbers of layers, effects and params, every layer's id and type, every
\* effect's type and the populated blocks and payloads as they were; the
\* layer ids stay unique and each layer keeps the payload of its type
C16_ShapePreserved ==
    call.op = "update" => (Shape(spec) = Shape(call.before) /\ WellFormed(spec))

\* an edit that went through and changed the spec
C16_Witness ==
    /\ call.op = "update"
    /\ call.ret
    /\ spec # call.before
    /\ call.path = <<"layers", "[", "0", "]", ".", "osc", ".", "waveform">>
    /\ call.value = None
    /\ Shape(spec) = Shape(call.before)

\* the paths of the grammar that address a leaf of s holding a number or a
\* flag, through an index, a type or an id of one word
CoercingPaths(s) ==
    {p \in GrammarPaths(s) :
        /\ p[Len(p)] # "waveform"
        /\ p[1] = "layers_by_id" =>
              \E i \in DOMAIN s.layers :
                 /\ Len(s.layers[i].id.v) = 1
                 /\ \E f \in GrammarLayerFields(s.layers[i]) :
                       p = <<"layers_by_id", ".">> \o s.layers[i].id.v \o <<".">> \o f}

\* C17: a number given for a leaf the grammar addresses is stored as the
\* primitive type of the field, whatever the bounds of the schema, and True
\* is returned
C17_NoRangeCheck ==
    (/\ call.op = "update"
     /\ call.value.t \in {"float", "int"}
     /\ call.path \in CoercingPaths(call.before))
      => /\ call.ret
         /\ LeafOf(spec, Words(call.path)) = CoercedFor(call.path[Len(call.path)], call.value)

\* global.amp := 2.7 went through: the spec no longer validates
C17_Witness ==
    /\ call.op = "update"
    /\ call.path = <<"global", ".", "amp">>
    /\ call.value = F(2700)
    /\ call.ret
    /\ spec.global_.amp = F(2700)
    /\ model_validate(model_dump(call.before, TRUE)).ok
    /\ ~model_validate(model_dump(spec, TRUE)).ok

(***************************************************************************)
(* Properties of the generation and of the built-in specs                  *)
(***************************************************************************)
\* the reply, once stripped, is not the text of one JSON document
Unparsable(reply) == json_loads(Stripped(reply.content)).exc

\* the document of the reply fails the validation
Rejected(reply) == ~Unparsable(reply) /\ SoundSpec_errors(json_loads(Stripped(reply.content)).val) # {}

\* the reply validates, and the document extended with the extra layer does not
ExtensionFails(reply, prompt) ==
    /\ ~Unparsable(reply)
    /\ ~Rejected(reply)
    /\ Len(Received(reply).layers) < 2
    /\ ~_is_pure_tone_prompt(prompt)
    /\ Enriched(model_dump(Received(reply), TRUE), prompt).exc

\* one of the failures of the generation
Failed(c) ==
    \/ ~c.api_key
    \/ c.reply.raises
    \/ Unparsable(c.reply)
    \/ Rejected(c.reply)
    \/ ExtensionFails(c.reply, c.prompt)

\* the spec is one a validation built: its export validates to itself
IsValidated(s) ==
    /\ s # NoSpec
    /\ model_validate(model_dump(s, TRUE)).ok
    /\ model_validate(model_dump(s, TRUE)).spec = s

\* the fallback spec the keywords of the prompt select
KeywordSpec(prompt) ==
    IF \E i \in DOMAIN prompt : prompt[i] \in {"laser", "Laser"}
    THEN SoundSpec(LaserDoc)
    ELSE IF \E i \in DOMAIN prompt : prompt[i] \in {"explosion", "boom", "BOOM"}
    THEN SoundSpec(ExplosionDoc)
    ELSE IF \E i \in DOMAIN prompt : prompt[i] \in {"shield", "Shield", "deflect"}
    THEN SoundSpec(ShieldDoc)
    ELSE SoundSpec(PickupDoc)

\* C18: generate_soundspec never raises and always returns a validated
\* SoundSpec; without an API key, when the client raises, when the reply is
\* not JSON, when its document fails the validation and when adding the
\* extra layer fails, the spec returned is the fallback spec the keywords of
\* the prompt select
C18_GenerateFallsBack ==
    (call.op = "generate" /\ call.source # "preset") =>
        /\ ~call.exc
        /\ IsValidated(spec)
        /\ (Failed(call) => spec = KeywordSpec(call.prompt))

\* adding the extra layer failed (24 params already) under a prompt for an
\* explosion: the explosion spec is returned
C18_Witness ==
    /\ call.op = "generate"
    /\ call.source = "fallback"
    /\ call.api_key
    /\ ~call.reply.raises
    /\ ExtensionFails(call.reply, call.prompt)
    /\ call.prompt = <<"BOOM">>
    /\ ~call.exc
    /\ spec.name = Str("explosion")
    /\ Len(spec.layers) = 2

\* the specs the claim calls built-in
BuiltIn(source) == source \in {"preset", "fallback", "extended"}

\* C19 as stated: in every preset, every fallback spec and every spec
\* extended by _ensure_rich_layers, every Param's path applied with the
\* Param's default returns True
C19_EveryPathAccepted ==
    (call.op = "param" /\ BuiltIn(call.source)) => call.ret

\* C19: in every preset and every fallback spec every Param's path applied
\* with the Param's default returns True, and in a spec extended by
\* _ensure_rich_layers so does the path of the Param that was added
C19_OwnPathsAccepted ==
    call.op = "param" =>
        /\ call.source \in {"preset", "fallback"} => call.ret
        /\ (call.source = "extended" /\ call.index = Len(call.before.params)) => call.ret

\* the param added under ids that were taken: layers_by_id.laser_chirp_2....
C19_Witness ==
    /\ call.op = "param"
    /\ call.source = "extended"
    /\ call.index = 3
    /\ Len(call.before.params) = 3
    /\ call.before.params[3].id = S(<<"laser_start_freq", "_", "3">>)
    /\ call.before.params[3].path.v
         = <<"layers_by_id", ".", "laser_chirp", "_", "2", ".", "chirp", ".", "f_start">>
    /\ call.ret
    /\ spec.layers[2].chirp.f_start = F(1600000)
    /\ call.before.layers[2].chirp.f_start = F(1600000)
    /\ spec.layers[1] = call.before.layers[1]

(***************************************************************************)
(* Properties of the WAV encoding                                          *)
(***************************************************************************)
\* the little-endian unsigned values at byte k (from 1) of b
U16At(b, k) == b[k] + 256 * b[k + 1]

U32At(b, k) == b[k] + 256 * b[k + 1] + 65536 * b[k + 2] + 16777216 * b[k + 3]

\* the signed 16-bit PCM value stored for sample k (from 1)
PcmAt(b, k) ==
    IF U16At(b, 43 + 2 * k) >= 32768 THEN U16At(b, 43 + 2 * k) - 65536
    ELSE U16At(b, 43 + 2 * k)

\* sample x (in thousandths) clamped to [-1, 1], times 32767, toward zero
Scaled(x) ==
    IF x >= 1000 THEN 32767
    ELSE IF x <= -1000 THEN -32767
    ELSE IF x >= 0 THEN (x * 32767) \div 1000
    ELSE -(((-x) * 32767) \div 1000)

\* the header of b is that of n mono 16-bit samples at sample_rate
HeaderFor(b, n, sample_rate) ==
    /\ Len(b) = 44 + 2 * n
    /\ SubSeq(b, 1, 4) = <<82, 73, 70, 70>>
    /\ U32At(b, 5) = 36 + 2 * n
    /\ SubSeq(b, 9, 16) = <<87, 65, 86, 69, 102, 109, 116, 32>>
    /\ U32At(b, 17) = 16
    /\ U16At(b, 21) = 1
    /\ U16At(b, 23) = 1
    /\ U32At(b, 25) = sample_rate
    /\ U32At(b, 29) = sample_rate * 2
    /\ U16At(b, 33) = 2
    /\ U16At(b, 35) = 16
    /\ SubSeq(b, 37, 40) = <<100, 97, 116, 97>>
    /\ U32At(b, 41) = 2 * n

\* the data of b is the samples, clamped, scaled and truncated
DataFor(b, samples) ==
    \A k \in 1..Len(samples) :
        /\ PcmAt(b, k) = Scaled(samples[k])
        /\ PcmAt(b, k) >= -32767
        /\ PcmAt(b, k) <= 32767

\* the samples were rendered, then the same spec was encoded
EncodedAfterRender ==
    /\ call.op = "wav"
    /\ call.prior = "render"
    /\ ~call.last.exc
    /\ ~out.exc

\* C20: encode_wav of N samples yields 44 + 2N bytes: RIFF size 36 + 2N, a
\* fmt chunk of size 16 with format tag 1, 1 channel, the sample rate, byte
\* rate sample_rate * 2, block align 2 and 16 bits, data size 2N, and per
\* sample the value clamped to [-1, 1], multiplied by 32767 and truncated
\* toward zero, which lies in [-32767, 32767]
C20_WavLayout ==
    EncodedAfterRender =>
        /\ HeaderFor(out.bytes, Len(call.last.samples), spec.sample_rate.v)
        /\ DataFor(out.bytes, call.last.samples)

\* a buffer with a sample above 1.0, stored as 32767, and a negative sample
\* whose product with 32767 is not whole
C20_Witness ==
    /\ EncodedAfterRender
    /\ Len(out.bytes) = 44 + 2 * Len(call.last.samples)
    /\ \E k \in 1..Len(call.last.samples) :
          call.last.samples[k] > 1000 /\ PcmAt(out.bytes, k) = 32767
    /\ \E k \in 1..Len(call.last.samples) :
          /\ call.last.samples[k] < 0
          /\ call.last.samples[k] > -1000
          /\ (call.last.samples[k] * 32767) % 1000 # 0
          /\ PcmAt(out.bytes, k) = Scaled(call.last.samples[k])

(***************************************************************************)
(* Properties of the order of the pipeline                                 *)
(***************************************************************************)
\* the base signals of the layers before, and the one of layer k after them
BaseAfter(s, k, before) ==
    Append(before,
           Base(s.layers[k], NumSamples(s.duration, s.sample_rate.v), s.sample_rate.v,
                IF k = 1 THEN Random(s.seed.v) ELSE before[k - 1].rng))

\* what the base signals of the layers 1..k leave, in declared order
RECURSIVE Bases(_, _)
Bases(s, k) == IF k = 0 THEN <<>> ELSE BaseAfter(s, k, Bases(s, k - 1))

\* the generator as layer k (from 1) finds it: after the layers before it
RngBefore(s, k) == IF k = 1 THEN Random(s.seed.v) ELSE Bases(s, k - 1)[k - 1].rng

\* the base signal of layer k
BaseOf(s, k) == Bases(s, k)[k].samples

\* the stages of a layer, each on the buffer x the stage before left
Modulated(layer, x, sample_rate) ==
    IF layer.mod = None THEN x ELSE apply_modulation(x, layer.mod, sample_rate)

RECURSIVE FilteredFrom(_, _, _, _)
FilteredFrom(layer, j, x, sample_rate) ==
    IF j > Len(layer.filter) THEN x
    ELSE FilteredFrom(layer, j + 1, apply_filter(x, layer.filter[j], sample_rate), sample_rate)

Enveloped(layer, x, s) == apply_envelope(x, layer.env, s.sample_rate.v, s.duration).samples

Scaled_by(x, amp) == List([i \in 1..Len(x) |-> Mul(x[i], amp.v)])

\* layer k: rendered, modulated, filtered, enveloped, scaled
LayerOut(s, k) ==
    Scaled_by(Enveloped(s.layers[k],
                        FilteredFrom(s.layers[k], 1,
                                     Modulated(s.layers[k], BaseOf(s, k), s.sample_rate.v),
                                     s.sample_rate.v),
                        s),
              s.layers[k].amp)

Added(x, y) == List([i \in 1..Len(x) |-> x[i] + y[i]])

\* the layers from k on, in declared order, added to the buffer x
RECURSIVE LayersAdded(_, _, _)
LayersAdded(s, k, x) ==
    IF k > Len(s.layers) THEN x ELSE LayersAdded(s, k + 1, Added(x, LayerOut(s, k)))

IsEnabled(fx) == fx.enabled.v

\* the effects fxs, in order, on what the stage before left: r, a buffer
\* or an exception
RECURSIVE EffectsOn(_, _, _)
EffectsOn(fxs, r, sample_rate) ==
    IF r.exc \/ fxs = <<>> THEN r
    ELSE EffectsOn(Tail(fxs), apply_fx(r.samples, Head(fxs), sample_rate), sample_rate)

NormalizedLast(s, r) ==
    IF ~r.exc /\ s.global_.normalize.v THEN normalize_samples(r.samples, F(950)) ELSE r

\* layers, then the global amp, then the enabled effects, then normalize
InOrder(s) ==
    NormalizedLast(s,
        EffectsOn(SelectSeq(s.fx_chain, IsEnabled),
                  Kept(Scaled_by(LayersAdded(s, 1,
                                             Zeros(NumSamples(s.duration, s.sample_rate.v))),
                                 s.global_.amp)),
                  s.sample_rate.v))

\* C21: each layer, in declared order, is rendered, modulated if it has a
\* mod block, filtered by its filters in list order, enveloped, scaled by its
\* amp and added to the output; then the buffer is scaled by the global amp;
\* then the enabled effects are applied in the order of fx_chain, a disabled
\* effect counting as absent; the global normalize runs last
C21_PipelineOrder ==
    (call.op = "render" /\ ~out.exc) => out.samples = InOrder(spec).samples

\* a render of two layers, the first modulated and filtered twice, with the
\* first of two effects switched off
C21_Witness ==
    /\ call.op = "render"
    /\ ~out.exc
    /\ Len(spec.layers) = 2
    /\ spec.layers[1].mod # None
    /\ Len(spec.layers[1].filter) = 2
    /\ Len(spec.fx_chain) = 2
    /\ ~spec.fx_chain[1].enabled.v
    /\ spec.fx_chain[2].enabled.v
    /\ PeakOf(out) > 0
    /\ out.samples = InOrder(spec).samples

(***************************************************************************)
(* Properties of the random stream                                         *)
(***************************************************************************)
Smaller(a, b) == IF a < b THEN a ELSE b

\* the draws the claim gives a layer over a buffer of num_samples
Draws(layer, num_samples, sample_rate) ==
    IF layer.type = Str("noise") THEN num_samples
    ELSE IF layer.type = Str("impulse") /\ layer.impulse.kind = Str("tap")
    THEN Smaller(Trunc(layer.impulse.width.v * sample_rate, 1000), num_samples)
    ELSE 0

RECURSIVE DrawsBefore(_, _)
DrawsBefore(s, k) ==
    IF k = 1 THEN 0
    ELSE DrawsBefore(s, k - 1)
         + Draws(s.layers[k - 1], NumSamples(s.duration, s.sample_rate.v), s.sample_rate.v)

NextDraw(g, i) == random(g)

\* the generator rng after n draws
Advanced(rng, n) == Scan(NextDraw, rng, 1, n).st

DrawsSome(s, k) ==
    Draws(s.layers[k], NumSamples(s.duration, s.sample_rate.v), s.sample_rate.v) > 0

\* the layers of s that draw, in their order, and the place of layer k there
RECURSIVE Drawers(_, _)
Drawers(s, k) ==
    IF k > Len(s.layers) THEN <<>>
    ELSE (IF DrawsSome(s, k) THEN <<s.layers[k]>> ELSE <<>>) \o Drawers(s, k + 1)

PlaceOf(s, k) == Cardinality({j \in 1..k : DrawsSome(s, j)})

OnlyDrawers(s) == [s EXCEPT !.layers = Drawers(s, 1)]

\* C22: a render seeds one stream from spec.seed and threads it through the
\* layers in declared order; layer k starts right after the draws of the
\* layers before it, a layer drawing once per sample if it is noise, once per
\* width sample if it is a tap impulse and never otherwise, so that a noise
\* layer sounds the same with the layers that draw nothing taken out
C22_OneStream ==
    (call.op = "render" /\ ~out.exc) =>
        \A k \in 1..Len(spec.layers) :
            /\ RngBefore(spec, k) = Advanced(Random(spec.seed.v), DrawsBefore(spec, k))
            /\ spec.layers[k].type = Str("noise") =>
                   LayerOut(spec, k) = LayerOut(OnlyDrawers(spec), PlaceOf(spec, k))

\* a render where a noise layer comes after a noise layer, a tap and a layer
\* that draws nothing
C22_Witness ==
    /\ call.op = "render"
    /\ ~out.exc
    /\ Len(spec.layers) = 4
    /\ spec.layers[4].type = Str("noise")
    /\ ~DrawsSome(spec, 3)
    /\ spec.layers[2].type = Str("impulse")
    /\ DrawsBefore(spec, 4) > NumSamples(spec.duration, spec.sample_rate.v)
    /\ DrawsBefore(spec, 4) < 2 * NumSamples(spec.duration, spec.sample_rate.v)
    /\ PlaceOf(spec, 4) = 3
    /\ RngBefore(spec, 4) = Advanced(Random(spec.seed.v), DrawsBefore(spec, 4))
    /\ PeakOf(out) > 0

(***************************************************************************)
(* Properties of the fields of a layer                                     *)
(***************************************************************************)
\* the subfields the claim lists for each payload
Whitelist(block) ==
    CASE block = "osc" -> {"freq", "detune", "waveform"}
      [] block = "chirp" -> {"f_start", "f_end", "vibrato_hz", "vibrato_depth", "waveform"}
      [] block = "fm" -> {"carrier_freq", "mod_freq", "index", "brightness"}
      [] block = "noise" -> {"cutoff_start", "cutoff_end"}
      [] block = "impulse" -> {"width", "tone_freq"}
      [] OTHER -> {}

\* the layer of s a root names, None if there is none
LayerAt(s, root) ==
    IF root[1] = "layers"
    THEN (IF root[3] = "0" THEN s.layers[1] ELSE s.layers[2])
    ELSE (IF \E k \in 1..Len(s.layers) : s.layers[k].id = Str(root[3])
          THEN s.layers[CHOOSE k \in 1..Len(s.layers) : s.layers[k].id = Str(root[3])]
          ELSE None)

\* the conditions of the claim for the field f of the block b of a layer
MayAssign(layer, b, f) ==
    /\ layer # None
    /\ IF b = "mod" THEN layer.mod # None
       ELSE /\ layer.type = Str(b)
            /\ layer[b] # None
            /\ f \in Whitelist(b)
            /\ (b = "impulse" /\ f = "tone_freq") => layer.impulse.tone_freq # None

\* C23: a layer path <payload>.<subfield> succeeds only when the payload is
\* the populated payload of the layer and the subfield is in the whitelist of
\* its type, mod.<f> only when the layer has a modulation block, and
\* impulse.tone_freq only when tone_freq is non-null already; in every other
\* case the call returns False and the Spec is unchanged
C23_FieldsGuarded ==
    call.op = "update" =>
        \A r \in FieldRoots, b \in FieldBlocks, f \in FieldNames :
            (call.path = r \o <<".", b, ".", f>> /\ ~MayAssign(LayerAt(call.before, r), b, f)) =>
                (~call.ret /\ ~call.exc /\ spec = call.before)

\* an update of impulse.tone_freq refused on a layer whose tone_freq is null
C23_Witness ==
    /\ call.op = "update"
    /\ call.path = <<"layers", "[", "0", "]", ".", "impulse", ".", "tone_freq">>
    /\ call.value = F(2700)
    /\ call.before.layers[1].type = Str("impulse")
    /\ call.before.layers[1].impulse.tone_freq = None
    /\ ~call.ret
    /\ spec = call.before

(***************************************************************************)
(* Properties of the effects addressed by type                             *)
(***************************************************************************)
\* the type a path fx_by_type.<type>.<rest> names, "" for any other path
TypeNamed(path) ==
    IF Len(path) > 4 /\ SubSeq(path, 1, 2) = <<"fx_by_type", ".">> /\ path[4] = "."
    THEN path[3] ELSE ""

\* the positions (from 1) of the effects of the type ty in s
OfType(s, ty) == {k \in 1..Len(s.fx_chain) : s.fx_chain[k].type = Str(ty)}

FirstOfType(s, ty) == CHOOSE k \in OfType(s, ty) : \A j \in OfType(s, ty) : k <= j

\* fx[j].<rest> for the path fx_by_type.<type>.<rest>, j the place of effect k
FxIndexPath(path, k) ==
    <<"fx", "[", <<"0", "1", "2">>[k], "]", ".">> \o SubSeq(path, 5, Len(path))

\* C24: fx_by_type.<type>.<rest> addresses the first effect of fx_chain of
\* that type only: its result and the resulting Spec are those of
\* fx[j].<rest>, j being the index of that effect, and the later effects of
\* the same type are not modified
C24_FirstOfType ==
    (call.op = "update" /\ OfType(call.before, TypeNamed(call.path)) # {}) =>
        LET k == FirstOfType(call.before, TypeNamed(call.path))
            r == update_spec_from_param(call.before, FxIndexPath(call.path, k), call.value)
        IN  /\ r.ret = call.ret
            /\ r.obj = spec
            /\ \A j \in OfType(call.before, TypeNamed(call.path)) :
                   j > k => spec.fx_chain[j] = call.before.fx_chain[j]

\* the drive of the first of two softclips, the second effect of the chain,
\* set by type
C24_Witness ==
    /\ call.op = "update"
    /\ call.path = <<"fx_by_type", ".", "softclip", ".", "params", ".", "drive">>
    /\ call.value = F(2700)
    /\ call.ret
    /\ OfType(call.before, "softclip") = {2, 3}
    /\ spec.fx_chain[2].params.drive = F(2700)
    /\ spec.fx_chain[3].params.drive = F(1000)
    /\ spec.fx_chain[3] = call.before.fx_chain[3]

(***************************************************************************)
(* Properties of the fields the renderer does not read                     *)
(***************************************************************************)
\* the layer with the pan, and the pitch LFO of its mod block if it has one,
\* replaced
Repanned(layer, a) ==
    [layer EXCEPT !.pan = a.pan,
                  !.mod = IF @ = None THEN None
                          ELSE [@ EXCEPT !.pitch_lfo_hz = a.hz, !.pitch_lfo_depth = a.depth]]

Altered(s, a) == [s EXCEPT !.layers = [k \in 1..Len(s.layers) |-> Repanned(s.layers[k], a)]]

Alterations ==
    {[pan |-> F(-1000), hz |-> F(20000), depth |-> F(100)],
     [pan |-> F(1000), hz |-> F(0), depth |-> F(0)],
     [pan |-> F(250), hz |-> F(7000), depth |-> F(50)]}

\* C25: the pan of a layer and the pitch_lfo_hz and pitch_lfo_depth of its
\* modulation have no effect on rendering: Specs equal but for the values of
\* those fields render the same samples
C25_PanAndPitchLfoUnused ==
    call.op = "render" => \A a \in Alterations : render_samples(Altered(spec, a)) = out

\* a second render, after the pan of the first layer was updated, of a Spec
\* with a tremolo, that gives the samples of the first render
C25_Witness ==
    /\ call.op = "render"
    /\ call.prior = "update"
    /\ spec.layers[1].pan = F(-1000)
    /\ spec.layers[1].mod # None
    /\ spec.layers[1].mod.tremolo_hz.v > 0
    /\ spec.layers[1].mod.pitch_lfo_depth.v > 0
    /\ call.last # NoOut
    /\ call.last = out
    /\ ~out.exc
    /\ PeakOf(out) > 0

(***************************************************************************)
(* Properties of the tremolo                                               *)
(***************************************************************************)
\* 1 - tremolo_depth * (sin(2 * pi * tremolo_hz * t) + 1) / 2 at sample i
TremoloGain(mod, i, sample_rate) ==
    1000 - Nearest(mod.tremolo_depth.v
                     * (math_sin(Cycles(mod.tremolo_hz.v, i, sample_rate)) + 1000), 2000)

\* the samples, each times the gain Gain gives its index
GainedBy(samples, Gain(_)) == [k \in 1..Len(samples) |-> Mul(samples[k], Gain(k - 1))]

\* C26 as stated: at every rate in [0, 30] and depth in [0, 0.8] sample i
\* of the base signal is multiplied by
\* 1 - tremolo_depth * (sin(2 * pi * tremolo_hz * t) + 1) / 2, t = i / sample_rate
C26_GainAtEveryRate ==
    call.op = "apply_modulation" =>
        LET Gain(i) == TremoloGain(call.mod, i, 22050)
        IN  out.samples = GainedBy(call.samples, Gain)

\* C26: at every rate in (0, 30] and depth in [0, 0.8] sample i of the base
\* signal is multiplied by
\* 1 - tremolo_depth * (sin(2 * pi * tremolo_hz * t) + 1) / 2, t = i / sample_rate,
\* and at the rate 0 the signal is left as it is
C26_GainAtPositiveRate ==
    call.op = "apply_modulation" =>
        LET Gain(i) == IF call.mod.tremolo_hz.v > 0 THEN TremoloGain(call.mod, i, 22050)
                       ELSE 1000
        IN  out.samples = GainedBy(call.samples, Gain)

\* a steady signal under the fastest and deepest tremolo: 0.6 at the start,
\* down to 0.2 and up to 1 within the buffer
C26_Witness ==
    /\ call.op = "apply_modulation"
    /\ call.mod.tremolo_hz = F(30000)
    /\ call.mod.tremolo_depth = F(800)
    /\ call.samples = Steady(800)
    /\ out.samples[1] = 600
    /\ \E k \in 1..800 : out.samples[k] <= 201
    /\ \E k \in 1..800 : out.samples[k] >= 999

(***************************************************************************)
(* Properties of the waveforms                                             *)
(***************************************************************************)
\* the phase of the call within one period, in millionths of a turn
Reduced == call.phase % 1000000

\* what the claim says of the sine, the square and the saw, and the range
RampsAndRange(v) ==
    /\ call.waveform = Str("sine") => v = math_sin(Reduced)
    /\ call.waveform = Str("square") => v = (IF Reduced < 500000 THEN 1000 ELSE -1000)
    /\ call.waveform = Str("saw") => v = Nearest(2 * Reduced, 1000) - 1000
    /\ v >= -1000
    /\ v <= 1000

\* C27 as stated: the phase is reduced modulo 2 pi; sine = sin(phase), square
\* = 1 below pi and -1 otherwise, saw = the ramp from -1 at 0 to 1 at 2 pi,
\* triangle = a triangular ramp with its peaks at pi / 2 and 3 pi / 2; every
\* value is in [-1, 1]
C27_TrianglePeaksAtQuarters ==
    call.op = "generate_waveform" =>
        /\ RampsAndRange(out.samples[1])
        /\ (call.waveform = Str("triangle") /\ Reduced \in {250000, 750000}) =>
               Abs(out.samples[1]) = 1000
        /\ (call.waveform = Str("triangle") /\ Reduced \notin {250000, 750000}) =>
               Abs(out.samples[1]) < 1000

\* C27: the phase is reduced modulo 2 pi; sine = sin(phase), square = 1
\* below pi and -1 otherwise, saw = the ramp from -1 at 0 to 1 at 2 pi,
\* triangle = 2 |2 (phase / (2 pi) - 1/2)| - 1, a triangular ramp that is 1
\* at phase 0, falls to -1 at pi, rises back to 1 at 2 pi, is 0 at pi / 2 and
\* 3 pi / 2 and below 1 in size away from 0, pi and 2 pi; every value is in
\* [-1, 1]
C27_TrianglePeaksAtZero ==
    call.op = "generate_waveform" =>
        /\ RampsAndRange(out.samples[1])
        /\ call.waveform = Str("triangle") =>
               /\ out.samples[1] = Nearest(4 * Abs(Reduced - 500000), 1000) - 1000
               /\ Reduced = 0 => out.samples[1] = 1000
               /\ Reduced = 500000 => out.samples[1] = -1000
               /\ Reduced \in {250000, 750000} => out.samples[1] = 0
               /\ Abs(Reduced - 500000) \in 1000..499000 => Abs(out.samples[1]) < 1000

\* the triangle a period and a quarter on: zero
C27_Witness ==
    /\ call.op = "generate_waveform"
    /\ call.waveform = Str("triangle")
    /\ call.phase = 1250000
    /\ out.samples = <<0>>

(***************************************************************************)
(* Properties of the adsr envelope                                         *)
(***************************************************************************)
SustainOf(env) == IF env.sustain # None THEN env.sustain.v ELSE 500

\* duration - release in microseconds, release 0.1 by default
ReleaseStart(env, duration) == (duration.v - ReleaseTime(env)) * 1000

\* the gain the claim gives the time t (microseconds): the release from
\* release_start on, and before it the attack, the decay and the sustain
AdsrClaimed(env, t, duration) ==
    IF t >= ReleaseStart(env, duration)
    THEN Mul(SustainOf(env), 1000 - Over(t - ReleaseStart(env, duration), ReleaseTime(env)))
    ELSE IF t < env.attack.v * 1000 THEN Over(t, env.attack.v)
    ELSE IF t < (env.attack.v + env.decay.v) * 1000
    THEN 1000 - Mul(1000 - SustainOf(env), Over(t - env.attack.v * 1000, env.decay.v))
    ELSE SustainOf(env)

\* C28: the adsr gain at t is t / attack while t < attack, then a linear
\* fall from 1 to sustain (0.5 by default) over decay, then sustain until
\* release_start = duration - release (release 0.1 by default), and for every
\* t >= release_start the release sustain * (1 - (t - release_start) / release)
\* that reaches 0 at the end of the layer; it is never negative nor above 1
C28_AdsrPiecewise ==
    (call.op = "apply_envelope" /\ ~out.exc) =>
        \A k \in 1..Len(out.samples) :
            /\ out.samples[k] = AdsrClaimed(call.env, Time(k - 1, 22050), call.duration)
            /\ out.samples[k] >= 0
            /\ out.samples[k] <= 1000

(***************************************************************************)
(* Properties of the delay                                                 *)
(***************************************************************************)
\* int(time_ms * sample_rate / 1000), time_ms in thousandths of a millisecond
RingLength(time_ms, sample_rate) == Trunc(time_ms.v * sample_rate, 1000000)

\* the length of the buffer after each turn of the loop
RingLengths(samples, delay_samples, feedback, mix) ==
    LET Measured(r) == [st |-> r.st, y |-> Len(r.st)]
        Turn(buffer, i) == Measured(RingStep(buffer, samples[i], feedback, mix))
    IN  Scan(Turn, Zeros(delay_samples), 1, Len(samples)).out

\* out[i] = in[i] + mix * w[i - D], w[j] = in[j] + feedback * w[j - D], w[j] = 0
\* for j < 0, indices from 0
Recurrence(samples, delay_samples, feedback, mix) ==
    LET w[j \in 0..(Len(samples) - 1)] ==
            samples[j + 1]
              + (IF j >= delay_samples THEN Mul(w[j - delay_samples], feedback) ELSE 0)
    IN  [k \in 1..Len(samples) |->
           samples[k] + (IF k > delay_samples THEN Mul(w[k - 1 - delay_samples], mix) ELSE 0)]

AllAre(lengths, D) == \A k \in 1..Len(lengths) : lengths[k] = D

\* the properties of the claim for the samples given, the ring D long
DelayLine(samples, D, feedback, mix, result) ==
    /\ D > 0
    /\ Len(Zeros(D)) = D
    /\ AllAre(RingLengths(samples, D, feedback, mix), D)
    /\ Len(result) = Len(samples)
    /\ \A k \in 1..Len(samples) : k <= D => result[k] = samples[k]
    /\ result = Recurrence(samples, D, feedback, mix)

\* C29: apply_delay keeps a ring of D = int(time_ms * sample_rate / 1000)
\* entries, zero at first, D long after every step; for each input s it
\* gives s + oldest * mix, pushes s + oldest * feedback and pops the oldest;
\* so the output is as long as the input, its first D samples are the
\* inputs, and out[i] = in[i] + mix * w[i - D] with
\* w[j] = in[j] + feedback * w[j - D], w[j] = 0 for j < 0
C29_DelayRecurrence ==
    call.op = "apply_delay" =>
        /\ ~out.exc
        /\ DelaySamples(call.time_ms, 22050) = RingLength(call.time_ms, 22050)
        /\ DelayLine(call.samples, RingLength(call.time_ms, 22050), call.feedback.v,
                     call.mix.v, out.samples)

\* 400 samples through a ring of 110 with feedback 0.85 and mix 0.7: sample
\* 220 carries the echo of sample 110 and the echo of the echo of sample 0
C29_Witness ==
    /\ call.op = "apply_delay"
    /\ Len(call.samples) = 400
    /\ DelaySamples(call.time_ms, 22050) = 110
    /\ call.feedback = F(850)
    /\ call.mix = F(700)
    /\ Mul(call.samples[1], 850) # 0
    /\ out.samples[110] = call.samples[110]
    /\ out.samples[111] = call.samples[111] + Mul(call.samples[1], 700)
    /\ out.samples[221]
         = call.samples[221] + Mul(call.samples[111] + Mul(call.samples[1], 850), 700)
    /\ out.samples[221] # call.samples[221] + Mul(call.samples[111], 700)

(***************************************************************************)
(* Properties of the soft clipper                                          *)
(***************************************************************************)
\* x - x^3 / 3 clipped to [-1, 1]
ClippedCubic(x) ==
    IF x - Nearest(Mul(Mul(x, x), x), 3) > 1000 THEN 1000
    ELSE IF x - Nearest(Mul(Mul(x, x), x), 3) < -1000 THEN -1000
    ELSE x - Nearest(Mul(Mul(x, x), x), 3)

\* the samples of the FM layer before the brightness is applied
Unbrightened(layer, num_samples, sample_rate) ==
    render_fm([layer EXCEPT !.fm.brightness = F(0)], num_samples, sample_rate,
              Random(42)).samples

\* the samples raw of an FM layer, shaped by Shaper under the drive
\* 1 + (brightness - 0.5) * 2 when the brightness is above 0.5
Brightened(fm, raw, Shaper(_)) ==
    [k \in 1..Len(raw) |->
       IF fm.brightness.v > 500 THEN Shaper(Mul(raw[k], 1000 + (fm.brightness.v - 500) * 2))
       ELSE raw[k]]

\* C30: the softclip effect maps each sample s to x - x^3 / 3 clipped to
\* [-1, 1], x = s * drive, for every drive the schema accepts, and the FM
\* layer applies the same shaping function when brightness > 0.5
C30_SoftclipIsClippedCubic ==
    /\ call.op = "apply_softclip" =>
           /\ ~out.exc
           /\ out.samples
                = [k \in 1..Len(call.samples) |->
                     ClippedCubic(Mul(call.samples[k], call.drive.v))]
    /\ call.op = "render_fm" =>
           out.samples = Brightened(call.layer.fm, Unbrightened(call.layer, 200, 22050),
                                    ClippedCubic)

====
